---------------------------- MODULE Spec2Model ----------------------------
(***************************************************************************)
(* Model of the lino-rest-api object codec (vendored ObjectCodec): the     *)
(* encoder that walks a JavaScript object graph into a Links Notation tree *)
(* and text, and the decoder that rebuilds an object graph from the text.  *)
(*                                                                         *)
(* JavaScript strings are sequences of UTF-16 code units (integers); the   *)
(* notation text and the labels of the notation tree are TLA+ strings over *)
(* printable ASCII.  Numbers are exact decimals (sign, significant digits, *)
(* decimal exponent) as in the ECMAScript Number::toString algorithm.      *)
(***************************************************************************)
EXTENDS Integers, Sequences, FiniteSets, TLC

(***************************************************************************)
(* Bounds of the model.                                                    *)
(***************************************************************************)
\* containers the program allocates before it calls encode
MaxObj == 4
\* child slots (array items, object entries) over the whole graph
MaxSlots == 3

-----------------------------------------------------------------------------
(***************************************************************************)
(* Characters, bytes and bit arithmetic.                                   *)
(***************************************************************************)
Range(f) == {f[i] : i \in DOMAIN f}

\* printable ASCII, code 32 (space) to 95 (_) and code 97 (a) to 126 (~); the
\* grave accent (96) cannot be written in a string and is left out
AsciiLow == " !\"#$%&'()*+,-./0123456789:;<=>?@ABCDEFGHIJKLMNOPQRSTUVWXYZ[\\]^_"

AsciiHigh == "abcdefghijklmnopqrstuvwxyz{|}~"

CharAt(s, i) == SubSeq(s, i, i)

\* the code of each character, as a table
AsciiCodes ==
    LET low  == [i \in 1..Len(AsciiLow) |-> CharAt(AsciiLow, i)]
        high == [i \in 1..Len(AsciiHigh) |-> CharAt(AsciiHigh, i)]
        code == [c \in Range(low) \cup Range(high) |->
                    IF c \in Range(low)
                    THEN 31 + (CHOOSE i \in 1..Len(AsciiLow) : low[i] = c)
                    ELSE 96 + (CHOOSE i \in 1..Len(AsciiHigh) : high[i] = c)]
    IN  code @@ code

\* the code of a one-character string
CharCode(c) == AsciiCodes[c]

RECURSIVE StrFrom(_, _)
\* the code units of the text s from position i on
StrFrom(s, i) == IF i > Len(s) THEN <<>> ELSE <<CharCode(CharAt(s, i))>> \o StrFrom(s, i + 1)

\* a JavaScript string literal: its code units
Str(s) == StrFrom(s, 1)

IsDigit(c) == c \in {"0", "1", "2", "3", "4", "5", "6", "7", "8", "9"}

DigitVal(c) == CharCode(c) - 48

\* x >> n and the low n bits of x, for the shifts of the byte codecs
Shr(x, n) == x \div (CASE n = 2 -> 4 [] n = 4 -> 16 [] n = 6 -> 64 [] n = 12 -> 4096)

Low(x, n) == x % (CASE n = 2 -> 4 [] n = 4 -> 16 [] n = 5 -> 32 [] n = 6 -> 64)

-----------------------------------------------------------------------------
(***************************************************************************)
(* Buffer.from(s, "utf-8") and buf.toString("utf-8").  Code units above    *)
(* U+FFFF (surrogate pairs) are outside the alphabet of the model: a       *)
(* surrogate is written as U+FFFD, as Node does for a lone one, and a      *)
(* four-byte lead is read as an invalid byte.                              *)
(***************************************************************************)
Replacement == 65533

Utf8Unit(u) ==
    IF u < 128 THEN <<u>>
    ELSE IF u < 2048 THEN <<192 + Shr(u, 6), 128 + Low(u, 6)>>
    ELSE LET v == IF u >= 55296 /\ u <= 57343 THEN Replacement ELSE u
         IN  <<224 + Shr(v, 12), 128 + Low(Shr(v, 6), 6), 128 + Low(v, 6)>>

RECURSIVE Utf8Encode(_)
Utf8Encode(units) ==
    IF units = <<>> THEN <<>> ELSE Utf8Unit(Head(units)) \o Utf8Encode(Tail(units))

IsCont(bytes, i) == i <= Len(bytes) /\ bytes[i] >= 128 /\ bytes[i] <= 191

RECURSIVE Utf8DecodeFrom(_, _)
Utf8DecodeFrom(bytes, i) ==
    IF i > Len(bytes) THEN <<>>
    ELSE LET b == bytes[i] IN
         IF b < 128 THEN <<b>> \o Utf8DecodeFrom(bytes, i + 1)
         ELSE IF b >= 194 /\ b <= 223 /\ IsCont(bytes, i + 1)
         THEN <<Low(b, 5) * 64 + Low(bytes[i + 1], 6)>> \o Utf8DecodeFrom(bytes, i + 2)
         ELSE IF b >= 224 /\ b <= 239 /\ IsCont(bytes, i + 1) /\ IsCont(bytes, i + 2)
                 /\ (b = 224 => bytes[i + 1] >= 160)
                 /\ (b = 237 => bytes[i + 1] <= 159)
         THEN <<Low(b, 4) * 4096 + Low(bytes[i + 1], 6) * 64 + Low(bytes[i + 2], 6)>>
                  \o Utf8DecodeFrom(bytes, i + 3)
         ELSE <<Replacement>> \o Utf8DecodeFrom(bytes, i + 1)

Utf8Decode(bytes) == Utf8DecodeFrom(bytes, 1)

-----------------------------------------------------------------------------
(***************************************************************************)
(* buf.toString("base64") and Buffer.from(text, "base64").  Node's decoder *)
(* never throws: it skips every character outside the alphabet, stops at   *)
(* the first "=", and drops an incomplete trailing group.                  *)
(***************************************************************************)
B64Alphabet == "ABCDEFGHIJKLMNOPQRSTUVWXYZabcdefghijklmnopqrstuvwxyz0123456789+/"

B64Chars == [i \in 1..64 |-> SubSeq(B64Alphabet, i, i)]

B64Chr(n) == B64Chars[n + 1]

RECURSIVE Base64From(_, _)
Base64From(bytes, i) ==
    LET left == Len(bytes) - i + 1 IN
    IF left <= 0 THEN ""
    ELSE IF left = 1
    THEN B64Chr(Shr(bytes[i], 2)) \o B64Chr(Low(bytes[i], 2) * 16) \o "=="
    ELSE IF left = 2
    THEN B64Chr(Shr(bytes[i], 2)) \o B64Chr(Low(bytes[i], 2) * 16 + Shr(bytes[i + 1], 4))
             \o B64Chr(Low(bytes[i + 1], 4) * 4) \o "="
    ELSE B64Chr(Shr(bytes[i], 2)) \o B64Chr(Low(bytes[i], 2) * 16 + Shr(bytes[i + 1], 4))
             \o B64Chr(Low(bytes[i + 1], 4) * 4 + Shr(bytes[i + 2], 6))
             \o B64Chr(Low(bytes[i + 2], 6)) \o Base64From(bytes, i + 3)

\* Buffer.from(units, "utf-8").toString("base64")
Base64Encode(units) == Base64From(Utf8Encode(units), 1)

\* Node's unbase64 as a table: the sextet of each legal character ("-" and
\* "_" are read as "+" and "/")
B64Sextets ==
    LET t == [c \in Range(B64Chars) |-> (CHOOSE i \in 1..64 : B64Chars[i] = c) - 1]
    IN  t @@ ("-" :> 62) @@ ("_" :> 63)

\* the sextet of a character, 64 for none
Unbase64(c) == IF c \in DOMAIN B64Sextets THEN B64Sextets[c] ELSE 64

RECURSIVE Sextets(_, _)
\* the sextets of the legal characters of text from i up to the first "="
Sextets(text, i) ==
    IF i > Len(text) \/ CharAt(text, i) = "=" THEN <<>>
    ELSE IF Unbase64(CharAt(text, i)) < 64
    THEN <<Unbase64(CharAt(text, i))>> \o Sextets(text, i + 1)
    ELSE Sextets(text, i + 1)

RECURSIVE SextetBytes(_, _)
SextetBytes(sx, i) ==
    LET left == Len(sx) - i + 1 IN
    IF left <= 1 THEN <<>>
    ELSE IF left = 2 THEN <<sx[i] * 4 + Shr(sx[i + 1], 4)>>
    ELSE IF left = 3
    THEN <<sx[i] * 4 + Shr(sx[i + 1], 4), Low(sx[i + 1], 4) * 16 + Shr(sx[i + 2], 2)>>
    ELSE <<sx[i] * 4 + Shr(sx[i + 1], 4), Low(sx[i + 1], 4) * 16 + Shr(sx[i + 2], 2),
           Low(sx[i + 2], 2) * 64 + sx[i + 3]>> \o SextetBytes(sx, i + 4)

\* Buffer.from(text, "base64").toString("utf-8")
Base64Decode(text) == Utf8Decode(SextetBytes(Sextets(text, 1), 1))

-----------------------------------------------------------------------------
(***************************************************************************)
(* JavaScript numbers.  A finite number is the exact decimal               *)
(* 0.digits * 10^n with digits free of leading and trailing zeros (the     *)
(* digits s, their count k and the exponent n of Number::toString); zero   *)
(* has no digits.  The sign of zero and the rounding of literals with more *)
(* than 15 significant digits are outside the model.                       *)
(***************************************************************************)
Num(neg, digits, n) == [cls |-> "finite", neg |-> neg, digits |-> digits, n |-> n]

Zero == Num(FALSE, "", 0)

NaN == [cls |-> "nan", neg |-> FALSE, digits |-> "", n |-> 0]

Infinity == [cls |-> "inf", neg |-> FALSE, digits |-> "", n |-> 0]

NegInfinity == [cls |-> "inf", neg |-> TRUE, digits |-> "", n |-> 0]

RECURSIVE Zeros(_)
Zeros(n) == IF n <= 0 THEN "" ELSE "0" \o Zeros(n - 1)

RECURSIVE StripLeadingZeros(_)
StripLeadingZeros(d) ==
    IF d # "" /\ Head(d) = "0" THEN StripLeadingZeros(Tail(d)) ELSE d

RECURSIVE StripTrailingZeros(_)
StripTrailingZeros(d) ==
    IF d # "" /\ CharAt(d, Len(d)) = "0"
    THEN StripTrailingZeros(SubSeq(d, 1, Len(d) - 1)) ELSE d

RECURSIVE DigitsValue(_, _)
\* the natural number written by the digit string d, after the value acc
DigitsValue(d, acc) ==
    IF d = "" THEN acc ELSE DigitsValue(Tail(d), 10 * acc + DigitVal(Head(d)))

\* the largest and smallest decimal exponents n of a finite nonzero double
MaxDecimalExp == 309
MinDecimalExp == -323

\* the number written by the digits int.frac times 10^exp
Normalise(neg, int, frac, exp) ==
    LET all  == int \o frac
        lead == StripLeadingZeros(all)
        n    == Len(int) + exp - (Len(all) - Len(lead))
        d    == StripTrailingZeros(lead)
    IN  IF d = "" \/ n < MinDecimalExp THEN Zero
        ELSE IF n > MaxDecimalExp THEN [Infinity EXCEPT !.neg = neg]
        ELSE Num(neg, d, n)

\* Number.isInteger(x)
IsInteger(x) == x.cls = "finite" /\ Len(x.digits) <= x.n

\* String(x) for a number x: Number::toString with radix 10
NumberToString(x) ==
    IF x.cls = "nan" THEN "NaN"
    ELSE IF x.cls = "inf" THEN (IF x.neg THEN "-Infinity" ELSE "Infinity")
    ELSE IF x.digits = "" THEN "0"
    ELSE LET k    == Len(x.digits)
             n    == x.n
             sign == IF x.neg THEN "-" ELSE ""
             e    == n - 1
             exp  == (IF e < 0 THEN "-" ELSE "+") \o ToString(IF e < 0 THEN -e ELSE e)
         IN  sign \o
             (IF k <= n /\ n <= 21 THEN x.digits \o Zeros(n - k)
              ELSE IF 0 < n /\ n <= 21
              THEN SubSeq(x.digits, 1, n) \o "." \o SubSeq(x.digits, n + 1, k)
              ELSE IF -6 < n /\ n <= 0 THEN "0." \o Zeros(-n) \o x.digits
              ELSE IF k = 1 THEN x.digits \o "e" \o exp
              ELSE SubSeq(x.digits, 1, 1) \o "." \o SubSeq(x.digits, 2, k) \o "e" \o exp)

RECURSIVE SkipSpaces(_, _)
SkipSpaces(s, i) ==
    IF i <= Len(s) /\ CharAt(s, i) = " " THEN SkipSpaces(s, i + 1) ELSE i

RECURSIVE DigitsEnd(_, _)
\* the first position from i on that holds no digit
DigitsEnd(s, i) ==
    IF i <= Len(s) /\ IsDigit(CharAt(s, i)) THEN DigitsEnd(s, i + 1) ELSE i

IsSign(s, i) == i <= Len(s) /\ CharAt(s, i) \in {"+", "-"}

\* parseInt(s, 10): the longest prefix sign? digit+ after leading blanks
ParseInt(s) ==
    LET i == SkipSpaces(s, 1)
        j == IF IsSign(s, i) THEN i + 1 ELSE i
        e == DigitsEnd(s, j)
    IN  IF e = j THEN NaN
        ELSE Normalise(IsSign(s, i) /\ CharAt(s, i) = "-", SubSeq(s, j, e - 1), "", 0)

\* parseFloat(s): the longest prefix that is a StrDecimalLiteral
ParseFloat(s) ==
    LET i    == SkipSpaces(s, 1)
        neg  == IsSign(s, i) /\ CharAt(s, i) = "-"
        j    == IF IsSign(s, i) THEN i + 1 ELSE i
        ie   == DigitsEnd(s, j)
        dot  == ie <= Len(s) /\ CharAt(s, ie) = "."
        fe   == IF dot THEN DigitsEnd(s, ie + 1) ELSE ie
        int  == SubSeq(s, j, ie - 1)
        frac == IF dot THEN SubSeq(s, ie + 1, fe - 1) ELSE ""
        \* with no digit at all the dot is no part of a literal
        me   == IF int = "" /\ frac = "" THEN j ELSE fe
        hasE == me <= Len(s) /\ CharAt(s, me) \in {"e", "E"}
        xs   == IF hasE /\ IsSign(s, me + 1) THEN me + 2 ELSE me + 1
        xe   == IF hasE THEN DigitsEnd(s, xs) ELSE xs
        xneg == hasE /\ IsSign(s, me + 1) /\ CharAt(s, me + 1) = "-"
        xval == IF hasE /\ xe > xs THEN DigitsValue(SubSeq(s, xs, xe - 1), 0) ELSE 0
    IN  IF j + 7 <= Len(s) /\ SubSeq(s, j, j + 7) = "Infinity" THEN [Infinity EXCEPT !.neg = neg]
        ELSE IF int = "" /\ frac = "" THEN NaN
        ELSE Normalise(neg, int, frac, IF xneg THEN -xval ELSE xval)

-----------------------------------------------------------------------------
(***************************************************************************)
(* The notation tree (Link of links-notation): an optional label and an    *)
(* ordered list of children.  id is <<>> for a link built without an id    *)
(* and <<label>> otherwise.                                                *)
(***************************************************************************)
\* new Link(part)
Leaf(label) == [id |-> <<label>>, values |-> <<>>]

\* new Link(undefined, values)
Node(values) == [id |-> <<>>, values |-> values]

\* the truth value of link.id: a label that is not the empty string
HasId(link) == link.id # <<>> /\ link.id[1] # ""

\* link.id where HasId(link)
IdOf(link) == link.id[1]

\* this._makeLink(...parts)
MakeLink(parts) == Node([i \in 1..Len(parts) |-> Leaf(parts[i])])

RECURSIVE HasSpecial(_, _)
\* whether the label holds a character the notation gives a meaning to
HasSpecial(label, i) ==
    i <= Len(label) /\ (CharAt(label, i) \in {" ", "(", ")", ":", "'", "\""}
                          \/ HasSpecial(label, i + 1))

\* Link.escapeReference: a label is written as it is, in quotes when it holds
\* a special character, and as nothing when it is empty
EscapeReference(id) ==
    IF id = <<>> \/ id[1] = "" THEN ""
    ELSE IF HasSpecial(id[1], 1) THEN "'" \o id[1] \o "'"
    ELSE id[1]

RECURSIVE Format(_)
RECURSIVE FormatValues(_, _)
\* link.format(): the text of a link
Format(link) ==
    IF link.values = <<>> THEN "(" \o EscapeReference(link.id) \o ")"
    ELSE IF link.id = <<>> THEN "(" \o FormatValues(link.values, 1) \o ")"
    ELSE "(" \o EscapeReference(link.id) \o ": " \o FormatValues(link.values, 1) \o ")"

\* the children from the i-th on, a leaf as its label, separated by blanks
FormatValues(values, i) ==
    IF i > Len(values) THEN ""
    ELSE (IF values[i].values = <<>> THEN EscapeReference(values[i].id)
          ELSE Format(values[i]))
         \o (IF i < Len(values) THEN " " ELSE "")
         \o FormatValues(values, i + 1)

RECURSIVE WordEnd(_, _)
\* the first position from i on that ends a word
WordEnd(text, i) ==
    IF i <= Len(text) /\ CharAt(text, i) \notin {" ", "(", ")"}
    THEN WordEnd(text, i + 1) ELSE i

RECURSIVE ParseSeq(_, _)
\* the links written from position i up to the closing parenthesis or the end
ParseSeq(text, i) ==
    LET j == SkipSpaces(text, i) IN
    IF j > Len(text) \/ CharAt(text, j) = ")"
    THEN [ok |-> TRUE, links |-> <<>>, pos |-> j]
    ELSE IF CharAt(text, j) = "("
    THEN LET inner == ParseSeq(text, j + 1) IN
         IF ~inner.ok \/ inner.pos > Len(text)
         THEN [ok |-> FALSE, links |-> <<>>, pos |-> inner.pos]
         ELSE LET rest == ParseSeq(text, inner.pos + 1) IN
              [rest EXCEPT !.links = <<Node(inner.links)>> \o @]
    ELSE LET e    == WordEnd(text, j)
             rest == ParseSeq(text, e)
         IN  [rest EXCEPT !.links = <<Leaf(SubSeq(text, j, e - 1))>> \o @]

\* parser.parse(notation): the top-level links; a stray or missing
\* parenthesis is a syntax error
Parse(text) ==
    LET r == ParseSeq(text, 1) IN
    [ok |-> r.ok /\ r.pos > Len(text), links |-> r.links]

-----------------------------------------------------------------------------
(***************************************************************************)
(* JavaScript values.  A list or a map is a reference into a heap of       *)
(* containers; every other value is a scalar.  A container holds its items *)
(* in order and, for a map, the key of each item (its own enumerable       *)
(* string keys in the order of Object.entries).  Keys that are array       *)
(* indices, which JavaScript orders first, are outside the key alphabets.  *)
(***************************************************************************)
Null == [k |-> "null"]

Undefined == [k |-> "undefined"]

Bool(b) == [k |-> "boolean", b |-> b]

Number(x) == [k |-> "number", x |-> x]

String(units) == [k |-> "string", s |-> units]

\* a function and a symbol: values of no kind the codec knows
Function == [k |-> "function"]

Symbol == [k |-> "symbol"]

\* the list or map at address a of the heap
Ref(a) == [k |-> "object", a |-> a]

EmptyArray == [isArray |-> TRUE, items |-> <<>>, keys |-> <<>>]

EmptyObject == [isArray |-> FALSE, items |-> <<>>, keys |-> <<>>]

\* array.push(v)
Push(c, v) == [c EXCEPT !.items = Append(@, v)]

\* object[key] = v: the value of an own key is replaced in place, a new key
\* is added last
SetProp(c, key, v) ==
    IF \E i \in 1..Len(c.keys) : c.keys[i] = key
    THEN [c EXCEPT !.items[CHOOSE i \in 1..Len(c.keys) : c.keys[i] = key] = v]
    ELSE [c EXCEPT !.items = Append(@, v), !.keys = Append(@, key)]

\* the empty Map and map.set(key, v)
EmptyMap == <<>>

MapSet(m, key, v) == [kk \in DOMAIN m \cup {key} |-> IF kk = key THEN v ELSE m[kk]]

-----------------------------------------------------------------------------
(***************************************************************************)
(* ObjectCodec._encodeValue.  The state st = [memo, counter] is the        *)
(* codec's _encodeMemo and _encodeCounter; a result is [ok, link, st, err] *)
(* where ok = FALSE stands for a thrown exception with message err (the    *)
(* memo and the counter keep what was written before the throw).           *)
(***************************************************************************)
\* new ObjectCodec(); decodeHeap holds the containers the entries of
\* _decodeMemo refer to
NewCodec ==
    [encodeMemo |-> EmptyMap, encodeCounter |-> 0, decodeMemo |-> EmptyMap, decodeHeap |-> <<>>]

\* the state of an earlier encode call carried into the next one
ResetEncodeKept(c) == [memo |-> c.encodeMemo, counter |-> c.encodeCounter]

\* this._encodeMemo = new Map(); this._encodeCounter = 0
ResetEncode(c) == [memo |-> EmptyMap, counter |-> 0]

\* the table of an earlier decode call carried into the next one
ResetDecodeKept(c) == [memo |-> c.decodeMemo, heap |-> c.decodeHeap]

\* this._decodeMemo = new Map(): the table is empty, and the containers of
\* earlier calls are out of its reach
ResetDecode(c) == [memo |-> EmptyMap, heap |-> <<>>]

Returned(link, st) == [ok |-> TRUE, link |-> link, st |-> st, err |-> ""]

Thrown(err, st) == [ok |-> FALSE, link |-> Node(<<>>), st |-> st, err |-> err]

\* ids counted from one
RefIdFromOne(counter) == "obj_" \o ToString(counter + 1)

\* `obj_${this._encodeCounter}`
RefId(counter) == "obj_" \o ToString(counter)

\* a memo that is never consulted
MemoizedNever(st, a) == FALSE

\* this._encodeMemo.has(obj)
Memoized(st, a) == a \in DOMAIN st.memo

\* an unsupported value written as a null node
EncodeUnsupportedAsNull(obj, st) == Returned(MakeLink(<<"null">>), st)

\* throw new TypeError(`Unsupported type: ${typeof obj}`)
EncodeUnsupported(obj, st) == Thrown("Unsupported type: " \o obj.k, st)

RECURSIVE EncodeValue(_, _, _, _)
RECURSIVE EncodeItems(_, _, _, _, _, _)
RECURSIVE EncodeEntries(_, _, _, _, _, _)

\* the number branch of _encodeValue
EncodeNumber(x) ==
    IF x.cls = "nan" THEN MakeLink(<<"float", "NaN">>)
    ELSE IF x.cls = "inf"
    THEN (IF ~x.neg THEN MakeLink(<<"float", "Infinity">>)
          ELSE MakeLink(<<"float", "-Infinity">>))
    ELSE IF IsInteger(x) THEN MakeLink(<<"int", NumberToString(x)>>)
    ELSE MakeLink(<<"float", NumberToString(x)>>)

\* the dispatch of _encodeValue on the kind of obj, st being the state after
\* the identity bookkeeping and visited the ancestors including obj
EncodeByType(heap, obj, visited, st) ==
    IF obj.k = "null" THEN Returned(MakeLink(<<"null">>), st)
    ELSE IF obj.k = "undefined" THEN Returned(MakeLink(<<"undefined">>), st)
    ELSE IF obj.k = "boolean"
    THEN Returned(MakeLink(<<"bool", IF obj.b THEN "true" ELSE "false">>), st)
    ELSE IF obj.k = "number" THEN Returned(EncodeNumber(obj.x), st)
    ELSE IF obj.k = "string" THEN Returned(MakeLink(<<"str", Base64Encode(obj.s)>>), st)
    ELSE IF obj.k = "object" /\ heap[obj.a].isArray
    THEN EncodeItems(heap, heap[obj.a].items, 1, visited, st,
                     <<Leaf("array"), Leaf(st.memo[obj.a])>>)
    ELSE IF obj.k = "object"
    THEN EncodeEntries(heap, heap[obj.a], 1, visited, st,
                       <<Leaf("object"), Leaf(st.memo[obj.a])>>)
    ELSE EncodeUnsupported(obj, st)

\* this._encodeValue(obj, visited)
EncodeValue(heap, obj, visited, st) ==
    IF obj.k = "object"
    THEN IF Memoized(st, obj.a)
         THEN Returned(MakeLink(<<"ref", st.memo[obj.a]>>), st)
         ELSE IF obj.a \in visited
         THEN LET st1 == IF ~Memoized(st, obj.a)
                         THEN [memo    |-> MapSet(st.memo, obj.a, RefId(st.counter)),
                               counter |-> st.counter + 1]
                         ELSE st
              IN  Returned(MakeLink(<<"ref", st1.memo[obj.a]>>), st1)
         ELSE EncodeByType(heap, obj, visited \cup {obj.a},
                           [memo    |-> MapSet(st.memo, obj.a, RefId(st.counter)),
                            counter |-> st.counter + 1])
    ELSE EncodeByType(heap, obj, visited, st)

\* the loop over the items of an array, from the i-th on
EncodeItems(heap, items, i, visited, st, parts) ==
    IF i > Len(items) THEN Returned(Node(parts), st)
    ELSE LET item == EncodeValue(heap, items[i], visited, st) IN
         IF ~item.ok THEN item
         ELSE EncodeItems(heap, items, i + 1, visited, item.st, Append(parts, item.link))

\* the loop over Object.entries of a map c, from the i-th entry on
EncodeEntries(heap, c, i, visited, st, parts) ==
    IF i > Len(c.items) THEN Returned(Node(parts), st)
    ELSE LET key == EncodeValue(heap, String(c.keys[i]), visited, st) IN
         IF ~key.ok THEN key
         ELSE LET value == EncodeValue(heap, c.items[i], visited, key.st) IN
              IF ~value.ok THEN value
              ELSE EncodeEntries(heap, c, i + 1, visited, value.st,
                                 Append(parts, Node(<<key.link, value.link>>)))

\* encode(obj) on the codec c up to the notation tree: reset, _encodeValue
EncodeWith(c, heap, obj) == EncodeValue(heap, obj, {}, ResetEncode(c))

\* encode(obj) on a codec no call was made on
EncodeTree(heap, obj) == EncodeWith(NewCodec, heap, obj)

-----------------------------------------------------------------------------
(***************************************************************************)
(* ObjectCodec._decodeLink.  The state st = [memo, heap] is the codec's    *)
(* _decodeMemo (ref id to container) and the containers this call has      *)
(* created so far; a result is [ok, val, st, err].                         *)
(***************************************************************************)
Value(val, st) == [ok |-> TRUE, val |-> val, st |-> st, err |-> ""]

Error(err, st) == [ok |-> FALSE, val |-> Undefined, st |-> st, err |-> err]

\* const result = [] or {}: a new container, at the next address
Alloc(st, c) == [st EXCEPT !.heap = Append(@, c)]

RECURSIVE ToStringJS(_, _, _)
RECURSIVE JoinJS(_, _, _, _)
\* String(v), the conversion a property key goes through; seen holds the
\* arrays being joined, which a cyclic array writes as the empty string
ToStringJS(heap, v, seen) ==
    IF v.k = "string" THEN v.s
    ELSE IF v.k = "null" THEN Str("null")
    ELSE IF v.k = "undefined" THEN Str("undefined")
    ELSE IF v.k = "boolean" THEN Str(IF v.b THEN "true" ELSE "false")
    ELSE IF v.k = "number" THEN Str(NumberToString(v.x))
    ELSE IF ~heap[v.a].isArray THEN Str("[object Object]")
    ELSE IF v.a \in seen THEN <<>>
    ELSE JoinJS(heap, heap[v.a].items, 1, seen \cup {v.a})

\* array.join(",") from the i-th item on
JoinJS(heap, items, i, seen) ==
    IF i > Len(items) THEN <<>>
    ELSE (IF items[i].k \in {"null", "undefined"} THEN <<>>
          ELSE ToStringJS(heap, items[i], seen))
         \o (IF i < Len(items) THEN Str(",") ELSE <<>>)
         \o JoinJS(heap, items, i + 1, seen)

\* the payload of a scalar node: its second child's label, when it has one
HasPayload(link) == Len(link.values) > 1 /\ HasId(link.values[2])

Payload(link) == IdOf(link.values[2])

\* the float branch of _decodeLink on a payload
DecodeFloat(text) ==
    IF text = "NaN" THEN NaN
    ELSE IF text = "Infinity" THEN Infinity
    ELSE IF text = "-Infinity" THEN NegInfinity
    ELSE ParseFloat(text)

\* an unregistered id read as null
DecodeRefLenient(link, st) ==
    IF HasPayload(link) /\ Payload(link) \in DOMAIN st.memo
    THEN Value(Ref(st.memo[Payload(link)]), st)
    ELSE Value(Null, st)

\* the ref branch of _decodeLink: the registered container, or a throw
DecodeRef(link, st) ==
    IF HasPayload(link) /\ Payload(link) \in DOMAIN st.memo
    THEN Value(Ref(st.memo[Payload(link)]), st)
    ELSE Error("Unknown reference in link", st)

\* an unknown tag read as null
DecodeUnknownAsNull(typeMarker, st) == Value(Null, st)

\* throw new Error(`Unknown type marker: ${typeMarker}`)
DecodeUnknown(typeMarker, st) == Error("Unknown type marker: " \o typeMarker, st)

RECURSIVE DecodeLink(_, _)
RECURSIVE DecodeItems(_, _, _, _)
RECURSIVE DecodePairs(_, _, _, _)

\* a container registered only after its children are decoded, which is
\* too late for a reference from inside it
DecodeContainerUnregistered(link, st, isArray) ==
    LET a   == Len(st.heap) + 1
        st1 == Alloc(st, IF isArray THEN EmptyArray ELSE EmptyObject)
    IN  IF isArray THEN DecodeItems(link, 3, a, st1) ELSE DecodePairs(link, 3, a, st1)

\* a table no container is entered in
RegisterNever(link, st, a) == st

\* if (refId) this._decodeMemo.set(refId, result)
Register(link, st, a) ==
    IF HasId(link.values[2])
    THEN [st EXCEPT !.memo = MapSet(@, IdOf(link.values[2]), a)]
    ELSE st

\* the branch of _decodeLink for an array or object node with a ref id slot
DecodeContainer(link, st, isArray) ==
    LET a   == Len(st.heap) + 1
        st1 == Alloc(st, IF isArray THEN EmptyArray ELSE EmptyObject)
        st2 == Register(link, st1, a)
    IN  IF isArray THEN DecodeItems(link, 3, a, st2) ELSE DecodePairs(link, 3, a, st2)

\* this._decodeLink(link)
DecodeLink(link, st) ==
    IF link.values = <<>>
    THEN (IF HasId(link) THEN Value(String(Str(IdOf(link))), st) ELSE Value(Null, st))
    ELSE IF ~HasId(link.values[1]) THEN Value(Null, st)
    ELSE LET typeMarker == IdOf(link.values[1]) IN
         IF typeMarker = "null" THEN Value(Null, st)
         ELSE IF typeMarker = "undefined" THEN Value(Undefined, st)
         ELSE IF typeMarker = "bool"
         THEN Value(Bool(HasPayload(link) /\ Payload(link) = "true"), st)
         ELSE IF typeMarker = "int"
         THEN Value(Number(IF HasPayload(link) THEN ParseInt(Payload(link)) ELSE Zero), st)
         ELSE IF typeMarker = "float"
         THEN Value(Number(IF HasPayload(link) THEN DecodeFloat(Payload(link)) ELSE Zero), st)
         ELSE IF typeMarker = "str"
         THEN Value(String(IF HasPayload(link) THEN Base64Decode(Payload(link)) ELSE <<>>), st)
         ELSE IF typeMarker = "ref"
         THEN DecodeRef(link, st)
         ELSE IF typeMarker = "array"
         THEN (IF Len(link.values) < 2
               THEN Value(Ref(Len(st.heap) + 1), Alloc(st, EmptyArray))
               ELSE DecodeContainer(link, st, TRUE))
         ELSE IF typeMarker = "object"
         THEN (IF Len(link.values) < 2
               THEN Value(Ref(Len(st.heap) + 1), Alloc(st, EmptyObject))
               ELSE DecodeContainer(link, st, FALSE))
         ELSE DecodeUnknown(typeMarker, st)

\* the loop over the items of an array node, from the i-th child on, into
\* the array at address a
DecodeItems(link, i, a, st) ==
    IF i > Len(link.values) THEN Value(Ref(a), st)
    ELSE LET item == DecodeLink(link.values[i], st) IN
         IF ~item.ok THEN item
         ELSE DecodeItems(link, i + 1, a,
                          [item.st EXCEPT !.heap[a] = Push(@, item.val)])

\* the loop over the pairs of an object node, from the i-th child on, into
\* the map at address a; a child with fewer than two children is skipped
DecodePairs(link, i, a, st) ==
    IF i > Len(link.values) THEN Value(Ref(a), st)
    ELSE IF Len(link.values[i].values) < 2 THEN DecodePairs(link, i + 1, a, st)
    ELSE LET key == DecodeLink(link.values[i].values[1], st) IN
         IF ~key.ok THEN key
         ELSE LET value == DecodeLink(link.values[i].values[2], key.st) IN
              IF ~value.ok THEN value
              ELSE DecodePairs(link, i + 1, a,
                       [value.st EXCEPT !.heap[a] =
                            SetProp(@, ToStringJS(value.st.heap, key.val, {}), value.val)])

\* decode(notation) on the codec c: reset, parse, _decodeLink; Null for a
\* document without a link, the parser's error for a malformed text
DecodeWith(c, notation) ==
    LET st0   == ResetDecode(c)
        links == Parse(notation)
    IN  IF ~links.ok THEN Error("Parse error", st0)
        ELSE IF links.links = <<>> THEN Value(Null, st0)
        ELSE DecodeLink(links.links[1], st0)

\* decode(notation) on a codec no call was made on
DecodeText(notation) == DecodeWith(NewCodec, notation)

-----------------------------------------------------------------------------
(***************************************************************************)
(* The inputs of the model.                                                *)
(***************************************************************************)
Seven == Number(Num(FALSE, "7", 1))

\* 1e21, the least integer String() writes with an exponent
Sextillion == Number(Num(FALSE, "1", 22))

\* the scalars the program passes to encode on their own
RootScalars ==
    {Null, Undefined, Bool(TRUE), Bool(FALSE), Function, Symbol,
     Number(Zero), Seven, Number(Num(TRUE, "42", 2)), Number(Num(FALSE, "12", 21)),
     Sextillion, Number(Num(TRUE, "15", 26)),
     Number(Num(FALSE, "314", 1)), Number(Num(FALSE, "5", 0)), Number(Num(TRUE, "15", -6)),
     Number(NaN), Number(Infinity), Number(NegInfinity),
     String(<<>>), String(Str("a")), String(Str("Alice")), String(Str("two")),
     String(Str("(a b) 'c': \"d\"")), String(<<233, 10, 8364>>)}

\* the scalars the program stores in a list or a map
Leaves == {Seven, String(Str("Alice")), Function}

\* the key of the i-th entry the program adds to a map
KeyName == Str("name")

KeyAt(i) == IF i = 1 THEN KeyName ELSE <<96 + i>>

\* the labels of the hand-built documents
DocTags == {"null", "undefined", "bool", "int", "float", "str", "array", "object", "ref",
            "dict", "list"}

DocPayloads == {"true", "false", "abc", "12abc", "-7", "1e+21", "3.14", "xyz", "NaN",
                "-Infinity", "QWxpY2U=", "a!b", "hello", "obj_0", "obj_99"}

\* nodes placed inside a hand-built list
DocItems == {"(ref obj_0)", "(ref obj_1)", "(ref)", "(array obj_1)", "(null)", "foo", "()",
             "(dict obj_1)", "(int abc)", "(array obj_1 (ref obj_0))", "((a b) c)"}

\* nodes placed as key or value of a hand-built map
DocKeys == {"(str bmFtZQ==)", "(int 7)", "(ref obj_0)", "(ref obj_9)", "foo", "(list)"}

\* the documents handed to decode that no encode call produced
HandBuiltDocs ==
    {"", "  ", "()", "foo", "((a b) c)", "(ref (x y))", "(array)", "(object)",
     "(object obj_0 (ref obj_9))", "(object obj_0 foo)", "(array obj_0", "(null))"}
    \cup {"(" \o t \o ")" : t \in DocTags}
    \cup {"(" \o t \o " " \o q \o ")" : t \in DocTags, q \in DocPayloads}
    \cup {"(array obj_0 " \o d \o ")" : d \in DocItems}
    \cup {"(array obj_0 " \o d \o " " \o e \o ")" : d \in DocItems, e \in DocItems}
    \cup {"(object obj_0 (" \o d \o " " \o e \o "))" : d \in DocKeys, e \in DocKeys}
    \cup {"(object obj_0 ((str bmFtZQ==) " \o d \o ") ((str bmFtZQ==) " \o e \o "))" :
              d \in DocKeys, e \in DocKeys}

-----------------------------------------------------------------------------
(***************************************************************************)
(* The program: it builds an object graph in its heap, passes a value to   *)
(* encode and the text it gets to decode; or it passes a hand-built        *)
(* document to decode.                                                     *)
(***************************************************************************)
VARIABLES
    heap,       \* the containers the program has built
    pc,         \* "build", "encoded" (encode was called), "decoded"
    arg,        \* the value passed to encode
    codec,      \* _defaultCodec: _encodeMemo, _encodeCounter, _decodeMemo
    enc,        \* the outcome of the encode call: its text or its error
    notation,   \* the text passed to decode
    dec,        \* the outcome of the decode call: its value or its error
    frames,     \* the _decodeLink calls in progress on container nodes, outermost first
    requests,   \* the requests the body parser was called with
    route,      \* the request dispatched to a wrapped route handler
    store       \* the example server: items, nextId and what its handlers returned

vars == <<heap, pc, arg, codec, enc, notation, dec, frames, requests, route, store>>

\* what the calls on the codec alone leave as it is
server == <<frames, requests, route, store>>

\* the child slots in use over the whole heap
RECURSIVE SlotsFrom(_, _)
SlotsFrom(h, a) == IF a > Len(h) THEN 0 ELSE Len(h[a].items) + SlotsFrom(h, a + 1)

Slots(h) == SlotsFrom(h, 1)

\* c.push(v) for a list c, c[key] = v with the next new key for a map c
AddChild(c, v) == IF c.isArray THEN Push(c, v) ELSE SetProp(c, KeyAt(Len(c.keys) + 1), v)

NoEncode == [ok |-> FALSE, text |-> "", link |-> Node(<<>>), err |-> ""]

NoDecode == [ok |-> FALSE, val |-> Undefined, heap |-> <<>>, err |-> ""]

\* no request was dispatched to a route
NoRoute ==
    [state |-> "none", res |-> [statusCode |-> 200, contentType |-> "", sent |-> <<>>],
     handlerSent |-> <<>>, outcome |-> "", h |-> <<>>, v |-> Undefined, uncaught |-> FALSE]

\* no request was handled by the example server yet: const items = new
\* Map(); let nextId = 1
NoItems ==
    [items |-> EmptyMap, nextId |-> 1, handed |-> <<>>,
     last |-> [op |-> "", key |-> NaN, status |-> 0, item |-> EmptyObject, sent |-> <<>>]]

Init ==
    /\ heap = <<>>
    /\ pc = "build"
    /\ arg = Undefined
    /\ codec = NewCodec
    /\ enc = NoEncode
    /\ notation = ""
    /\ dec = NoDecode
    /\ frames = <<>>
    /\ requests = <<>>
    /\ route = NoRoute
    /\ store = NoItems

\* const root = [] or {}
NewRoot(isArray) ==
    /\ pc = "build" /\ heap = <<>>
    /\ heap' = <<IF isArray THEN EmptyArray ELSE EmptyObject>>
    /\ UNCHANGED <<pc, arg, codec, enc, notation, dec, server>>

\* a scalar is stored in container a
AddLeaf(a, v) ==
    /\ pc = "build" /\ Slots(heap) < MaxSlots
    /\ heap' = [heap EXCEPT ![a] = AddChild(@, v)]
    /\ UNCHANGED <<pc, arg, codec, enc, notation, dec, server>>

\* a new list or map is created and stored in container a
AddNew(a, isArray) ==
    /\ pc = "build" /\ Slots(heap) < MaxSlots /\ Len(heap) < MaxObj
    /\ heap' = Append([heap EXCEPT ![a] = AddChild(@, Ref(Len(heap) + 1))],
                      IF isArray THEN EmptyArray ELSE EmptyObject)
    /\ UNCHANGED <<pc, arg, codec, enc, notation, dec, server>>

\* container b, which exists, is stored in container a as well
AddRef(a, b) ==
    /\ pc = "build" /\ Slots(heap) < MaxSlots
    /\ heap' = [heap EXCEPT ![a] = AddChild(@, Ref(b))]
    /\ UNCHANGED <<pc, arg, codec, enc, notation, dec, server>>

\* encode(obj) of the default codec: reset, _encodeValue, format
EncodeCall(obj) ==
    /\ pc = "build"
    /\ LET r == EncodeWith(codec, heap, obj) IN
       /\ codec' = [codec EXCEPT !.encodeMemo = r.st.memo, !.encodeCounter = r.st.counter]
       /\ enc' = IF r.ok
                 THEN [ok |-> TRUE, text |-> Format(r.link), link |-> r.link, err |-> ""]
                 ELSE [NoEncode EXCEPT !.err = r.err]
    /\ arg' = obj
    /\ pc' = "encoded"
    /\ UNCHANGED <<heap, notation, dec, server>>

\* decode(notation) of the default codec: reset, parse, _decodeLink
DecodeCall(text) ==
    /\ LET r == DecodeWith(codec, text) IN
       /\ codec' = [codec EXCEPT !.decodeMemo = r.st.memo, !.decodeHeap = r.st.heap]
       /\ dec' = [ok |-> r.ok, val |-> r.val, heap |-> r.st.heap, err |-> r.err]
    /\ notation' = text
    /\ pc' = "decoded"
    /\ UNCHANGED <<heap, arg, enc, server>>

\* the program encodes the graph it built, or a scalar
Encode ==
    IF heap = <<>> THEN \E v \in RootScalars : EncodeCall(v) ELSE EncodeCall(Ref(1))

\* the program decodes the text encode returned
DecodeEncoded == pc = "encoded" /\ enc.ok /\ DecodeCall(enc.text)

\* the program decodes a hand-built document
DecodeDoc == pc = "build" /\ heap = <<>> /\ \E t \in HandBuiltDocs : DecodeCall(t)

Build ==
    \/ \E isArray \in BOOLEAN : NewRoot(isArray)
    \/ \E a \in 1..Len(heap), v \in Leaves : AddLeaf(a, v)
    \/ \E a \in 1..Len(heap), isArray \in BOOLEAN : AddNew(a, isArray)
    \/ \E a \in 1..Len(heap), b \in 1..Len(heap) : AddRef(a, b)

Next == Build \/ Encode \/ DecodeEncoded \/ DecodeDoc

Spec == Init /\ [][Next]_vars

-----------------------------------------------------------------------------
(***************************************************************************)
(* Graphs and notation trees, as the claims speak of them.                 *)
(***************************************************************************)
IsContainer(v) == v.k = "object"

RECURSIVE Dfs(_, _, _)
RECURSIVE DfsItems(_, _, _, _)
\* the containers reachable from v that order lacks, added to order in
\* depth-first pre-order of first encounter
Dfs(h, v, order) ==
    IF ~IsContainer(v) \/ v.a \in Range(order) THEN order
    ELSE DfsItems(h, h[v.a].items, 1, Append(order, v.a))

DfsItems(h, items, i, order) ==
    IF i > Len(items) THEN order ELSE DfsItems(h, items, i + 1, Dfs(h, items[i], order))

FirstEncounter(h, v) == Dfs(h, v, <<>>)

\* the slots of the containers of order: <<container, index>>
SlotsOf(h, order) ==
    UNION {{<<b, i>> : i \in 1..Len(h[b].items)} : b \in Range(order)}

\* the positions of the graph under v that hold container a: v itself and
\* the slots of the containers reachable from v (order)
Occurrences(h, v, order, a) ==
    (IF v = Ref(a) THEN 1 ELSE 0)
    + Cardinality({p \in SlotsOf(h, order) : h[p[1]].items[p[2]] = Ref(a)})

\* the scalars stored in the graph under v, v itself if it is one
ScalarsOf(h, v) ==
    IF ~IsContainer(v) THEN {v}
    ELSE {h[p[1]].items[p[2]] : p \in
              {p \in SlotsOf(h, FirstEncounter(h, v)) : ~IsContainer(h[p[1]].items[p[2]])}}

RECURSIVE AllNodes(_)
RECURSIVE AllNodesOf(_, _)
\* every node of a notation tree, in document order
AllNodes(link) == <<link>> \o AllNodesOf(link.values, 1)

AllNodesOf(values, i) ==
    IF i > Len(values) THEN <<>> ELSE AllNodes(values[i]) \o AllNodesOf(values, i + 1)

\* a node whose first child is a leaf labelled tag
IsTagged(link, tag) ==
    link.values # <<>> /\ HasId(link.values[1]) /\ IdOf(link.values[1]) = tag

IsContainerNode(link) == IsTagged(link, "array") \/ IsTagged(link, "object")

IsRefNode(link) == IsTagged(link, "ref")

\* the full container nodes and the ref nodes of the tree encode built
FullNodes == LET T(l) == IsContainerNode(l) IN SelectSeq(AllNodes(enc.link), T)

RefNodes == LET T(l) == IsRefNode(l) IN SelectSeq(AllNodes(enc.link), T)

\* encode was called on arg; it returned a text for the graph under arg
EncodeCalled == enc # NoEncode

Encoded == enc.ok

\* decode was called on the text encode returned
RoundTrip == pc = "decoded" /\ enc.ok

-----------------------------------------------------------------------------
(***************************************************************************)
(* C2.  Reference structure survives a round trip.  Corr relates the       *)
(* containers of the input graph and of the decoded graph that sit at the  *)
(* same position (the roots, and the i-th children of related containers). *)
(***************************************************************************)
CorrStep(h1, h2, R) ==
    R \cup UNION {{<<h1[p[1]].items[i].a, h2[p[2]].items[i].a>> :
                      i \in {i \in 1..Len(h1[p[1]].items) :
                                 /\ i <= Len(h2[p[2]].items)
                                 /\ IsContainer(h1[p[1]].items[i])
                                 /\ IsContainer(h2[p[2]].items[i])}} : p \in R}

RECURSIVE CorrClose(_, _, _)
CorrClose(h1, h2, R) ==
    LET S == CorrStep(h1, h2, R) IN IF S = R THEN R ELSE CorrClose(h1, h2, S)

Corr == IF IsContainer(arg) /\ IsContainer(dec.val)
        THEN CorrClose(heap, dec.heap, {<<arg.a, dec.val.a>>})
        ELSE {}

\* C2: after decode(encode(v)), positions that denote the same list or map
\* of v denote one and the same list or map of the result (shared by
\* siblings or an ancestor of itself alike), and at every position a
\* container of the same kind and size stands where v has one.
C2_ReferenceStructure ==
    RoundTrip =>
        /\ dec.ok
        /\ IsContainer(arg) <=> IsContainer(dec.val)
        /\ LET R == Corr IN
           /\ \A p \in R :
                 /\ heap[p[1]].isArray = dec.heap[p[2]].isArray
                 /\ Len(heap[p[1]].items) = Len(dec.heap[p[2]].items)
                 /\ \A i \in 1..Len(heap[p[1]].items) :
                       IsContainer(heap[p[1]].items[i])
                           <=> IsContainer(dec.heap[p[2]].items[i])
           /\ \A p, q \in R : p[1] = q[1] => p[2] = q[2]

\* a round trip of a map that holds itself and holds one list twice: the
\* result holds itself and holds one list twice
C2_Witness ==
    /\ RoundTrip /\ dec.ok /\ arg = Ref(1)
    /\ heap[1].items = <<Ref(2), Ref(2), Ref(1)>>
    /\ dec.heap[dec.val.a].items[3] = dec.val
    /\ dec.heap[dec.val.a].items[1] = dec.heap[dec.val.a].items[2]
    /\ IsContainer(dec.heap[dec.val.a].items[1])

-----------------------------------------------------------------------------
\* C3: encode returns for every graph, cyclic or not, and its tree holds
\* exactly one full node (tag, ref id, one child per item) for each
\* container reachable from the root; every further occurrence of the
\* container is a two-leaf (ref id) node.
C3_OneFullNodePerContainer ==
    (EncodeCalled /\ ScalarsOf(heap, arg) \cap {Function, Symbol} = {}) =>
        /\ enc.ok
        /\ LET order == FirstEncounter(heap, arg)
               full  == FullNodes
               refs  == RefNodes
               memo  == codec.encodeMemo
           IN
           /\ Len(full) = Len(order)
           /\ \A a \in Range(order) :
                 /\ a \in DOMAIN memo
                 /\ Cardinality({i \in 1..Len(full) :
                        /\ full[i].values[2] = Leaf(memo[a])
                        /\ IsTagged(full[i], IF heap[a].isArray THEN "array" ELSE "object")
                        /\ Len(full[i].values) = 2 + Len(heap[a].items)}) = 1
                 /\ Cardinality({i \in 1..Len(refs) : refs[i] = MakeLink(<<"ref", memo[a]>>)})
                      = Occurrences(heap, arg, order, a) - 1
           /\ \A i \in 1..Len(refs) :
                 \E a \in Range(order) : refs[i] = MakeLink(<<"ref", memo[a]>>)

\* a graph with a cycle through two containers and a shared container was
\* encoded: two full nodes, two ref nodes
C3_Witness ==
    /\ Encoded /\ arg = Ref(1)
    /\ heap[1].items = <<Ref(2), Ref(2)>> /\ heap[2].items = <<Ref(1)>>
    /\ Len(FullNodes) = 2 /\ Len(RefNodes) = 2

-----------------------------------------------------------------------------
\* C10: within one encode call the ref ids are obj_0, obj_1, ... without
\* gaps, in depth-first pre-order of first encounter; the root container
\* carries obj_0, the id is the second child of its node, and
\* encode({name: "Alice"}) is (object obj_0 ((str bmFtZQ==) (str QWxpY2U=))).
C10_RefIdsInPreOrder ==
    Encoded =>
        LET order == FirstEncounter(heap, arg)
            full  == FullNodes
        IN
        /\ \A i \in 1..Len(order) : codec.encodeMemo[order[i]] = "obj_" \o ToString(i - 1)
        /\ Len(full) = Len(order)
        /\ \A i \in 1..Len(full) : full[i].values[2] = Leaf("obj_" \o ToString(i - 1))
        /\ IsContainer(arg) => IsContainerNode(enc.link) /\ enc.link.values[2] = Leaf("obj_0")
        /\ (heap = <<SetProp(EmptyObject, Str("name"), String(Str("Alice")))>>)
               => enc.text = "(object obj_0 ((str bmFtZQ==) (str QWxpY2U=)))"

\* a graph whose pre-order differs from the order its containers were
\* created in was encoded
C10_Witness ==
    /\ Encoded /\ Len(heap) = 4
    /\ FirstEncounter(heap, arg) = <<1, 2, 4, 3>>
    /\ codec.encodeMemo[4] = "obj_2"

-----------------------------------------------------------------------------
(***************************************************************************)
(* The document decode was given, and the nodes of it that stand where a   *)
(* value is expected: the root, the items of a list node and the keys and  *)
(* values of the pairs of a map node.                                      *)
(***************************************************************************)
DecodeCalled == pc = "decoded"

\* the first link of the document, where the parser yields one
HasRoot == Parse(notation).ok /\ Parse(notation).links # <<>>

DocRoot == Parse(notation).links[1]

KnownTags == {"null", "undefined", "bool", "int", "float", "str", "array", "object", "ref"}

RECURSIVE ValueNodes(_)
RECURSIVE ItemNodes(_, _)
RECURSIVE PairNodes(_, _)
\* the nodes at value positions under link, link first, in document order
ValueNodes(link) ==
    <<link>> \o
    (IF IsTagged(link, "array") THEN ItemNodes(link.values, 3)
     ELSE IF IsTagged(link, "object") THEN PairNodes(link.values, 3)
     ELSE <<>>)

ItemNodes(values, i) ==
    IF i > Len(values) THEN <<>> ELSE ValueNodes(values[i]) \o ItemNodes(values, i + 1)

PairNodes(values, i) ==
    IF i > Len(values) THEN <<>>
    ELSE (IF Len(values[i].values) >= 2
          THEN ValueNodes(values[i].values[1]) \o ValueNodes(values[i].values[2])
          ELSE <<>>)
         \o PairNodes(values, i + 1)

\* the ref ids the container nodes among the first n nodes carry
IdsRegistered(nodes, n) ==
    {IdOf(nodes[j].values[2]) :
         j \in {j \in 1..n : IsContainerNode(nodes[j]) /\ HasPayload(nodes[j])}}

\* the i-th node is a ref node without an id, or with an id that no
\* container node before it carries
Dangling(nodes, i) ==
    /\ IsRefNode(nodes[i])
    /\ ~HasPayload(nodes[i]) \/ Payload(nodes[i]) \notin IdsRegistered(nodes, i - 1)

\* C4: a document with a ref node, at a position where decode expects a
\* value, whose id no container node earlier in the document registered (or
\* that has no id) makes the whole decode call fail; no value is returned.
C4_DanglingReferenceRejected ==
    (DecodeCalled /\ HasRoot) =>
        LET nodes == ValueNodes(DocRoot) IN
        (\E i \in 1..Len(nodes) : Dangling(nodes, i))
            => ~dec.ok /\ dec.val = Undefined

\* a list whose second item refers to a list that is registered only later
C4_Witness ==
    /\ DecodeCalled
    /\ notation = "(array obj_0 (ref obj_1) (array obj_1))"
    /\ ~dec.ok /\ dec.err = "Unknown reference in link"

-----------------------------------------------------------------------------
\* a node of a recognized tagged shape: its first child is a leaf labelled
\* with one of the nine tags
Recognized(link) == \E t \in KnownTags : IsTagged(link, t)

\* a node whose first child carries a label that is no tag
UnknownTag(link) == link.values # <<>> /\ HasId(link.values[1]) /\ ~Recognized(link)

\* C5 as stated: every node at a value position that is not of a recognized
\* tagged shape makes decode fail.
C5_Original ==
    (DecodeCalled /\ HasRoot) =>
        LET nodes == ValueNodes(DocRoot) IN
        (\E i \in 1..Len(nodes) : ~Recognized(nodes[i])) => ~dec.ok

\* C5 as amended: a node at a value position whose first child carries a
\* label that is none of the nine tags makes decode fail; a bare labelled
\* leaf decodes to its label as a string, and a node without label and
\* children, or whose first child has no label, decodes to Null.
C5_UnknownTagRejected ==
    (DecodeCalled /\ HasRoot) =>
        LET nodes == ValueNodes(DocRoot) IN
        /\ (\E i \in 1..Len(nodes) : UnknownTag(nodes[i])) => ~dec.ok
        /\ (DocRoot.values = <<>> /\ HasId(DocRoot))
               => dec.ok /\ dec.val = String(Str(IdOf(DocRoot)))
        /\ (DocRoot.values = <<>> /\ ~HasId(DocRoot)) => dec.ok /\ dec.val = Null
        /\ (DocRoot.values # <<>> /\ ~HasId(DocRoot.values[1])) => dec.ok /\ dec.val = Null

\* a list whose item carries the tag dict
C5_Witness ==
    /\ DecodeCalled
    /\ notation = "(array obj_0 (dict obj_1))"
    /\ ~dec.ok /\ dec.err = "Unknown type marker: dict"

-----------------------------------------------------------------------------
\* C6: when the graph passed to encode holds, at any depth, a value of no
\* kind the codec knows (a function, a symbol), encode fails and returns no
\* text, not even a part of one.
C6_UnsupportedKindRejected ==
    (EncodeCalled /\ ScalarsOf(heap, arg) \cap {Function, Symbol} # {}) =>
        ~enc.ok /\ enc.text = "" /\ enc.err # ""

\* a function two containers below the root, after a sibling that was
\* encoded in full
C6_Witness ==
    /\ EncodeCalled /\ Len(heap) >= 2
    /\ heap[1].items = <<Seven, Ref(2)>> /\ heap[2].items = <<Function>>
    /\ ~enc.ok /\ enc.err = "Unsupported type: function"

-----------------------------------------------------------------------------
(***************************************************************************)
(* Claims the code does not meet.                                          *)
(***************************************************************************)
RECURSIVE DeepEqual(_, _, _, _)
\* v1 in heap h1 and v2 in heap h2 are the same value: same kind, same
\* items in the same order, same keys
DeepEqual(h1, v1, h2, v2) ==
    IF IsContainer(v1)
    THEN /\ IsContainer(v2)
         /\ h1[v1.a].isArray = h2[v2.a].isArray
         /\ h1[v1.a].keys = h2[v2.a].keys
         /\ Len(h1[v1.a].items) = Len(h2[v2.a].items)
         /\ \A i \in 1..Len(h1[v1.a].items) :
               DeepEqual(h1, h1[v1.a].items[i], h2, h2[v2.a].items[i])
    ELSE v1 = v2

\* no container of the graph under v is held at two positions
IsTree(h, v) ==
    LET order == FirstEncounter(h, v) IN
    \A a \in Range(order) : Occurrences(h, v, order, a) = 1

\* null, absent, a boolean, an integer or a string
IsPlainScalar(v) ==
    \/ v.k \in {"null", "undefined", "boolean", "string"}
    \/ v.k = "number" /\ IsInteger(v.x)

\* C1: for a value built from null, absent, booleans, integers, strings and
\* unshared, acyclic lists and maps, decode(encode(v)) is deep-equal to v.
C1_PlainRoundTrip ==
    (DecodeCalled /\ EncodeCalled /\ IsTree(heap, arg)
       /\ \A v \in ScalarsOf(heap, arg) : IsPlainScalar(v))
        => enc.ok /\ dec.ok /\ DeepEqual(heap, arg, dec.heap, dec.val)

\* the base-10 text of an integer
DecimalText(x) ==
    IF x.digits = "" THEN "0"
    ELSE (IF x.neg THEN "-" ELSE "") \o x.digits \o Zeros(x.n - Len(x.digits))

\* C9: an integer is encoded as (int <its base-10 text>) and decodes to the
\* same integer; NaN, Infinity and -Infinity are encoded as float nodes with
\* these literals and decode to themselves.
C9_NumericFidelity ==
    (EncodeCalled /\ arg.k = "number") =>
        /\ IsInteger(arg.x) => enc.ok /\ enc.link = MakeLink(<<"int", DecimalText(arg.x)>>)
        /\ arg.x = NaN => enc.ok /\ enc.link = MakeLink(<<"float", "NaN">>)
        /\ arg.x = Infinity => enc.ok /\ enc.link = MakeLink(<<"float", "Infinity">>)
        /\ arg.x = NegInfinity => enc.ok /\ enc.link = MakeLink(<<"float", "-Infinity">>)
        /\ (DecodeCalled /\ (IsInteger(arg.x) \/ arg.x.cls # "finite"))
               => dec.ok /\ dec.val = arg

\* the whole text is sign? digit+
IsDecimalInteger(text) ==
    LET j == IF IsSign(text, 1) /\ CharAt(text, 1) = "-" THEN 2 ELSE 1 IN
    j <= Len(text) /\ DigitsEnd(text, j) = Len(text) + 1

\* the whole text is sign? digit+ (. digit+)? (e sign? digit+)?, or one of
\* NaN, Infinity, -Infinity
IsDecimalNumber(text) ==
    \/ text \in {"NaN", "Infinity", "-Infinity"}
    \/ LET j  == IF IsSign(text, 1) /\ CharAt(text, 1) = "-" THEN 2 ELSE 1
           ie == DigitsEnd(text, j)
           fe == IF ie <= Len(text) /\ CharAt(text, ie) = "." THEN DigitsEnd(text, ie + 1) ELSE ie
           xs == IF IsSign(text, fe + 1) THEN fe + 2 ELSE fe + 1
       IN  /\ ie > j
           /\ fe # ie + 1
           /\ \/ fe = Len(text) + 1
              \/ /\ CharAt(text, fe) \in {"e", "E"}
                 /\ xs <= Len(text) /\ DigitsEnd(text, xs) = Len(text) + 1

\* C7: an int or float node whose payload is missing or is no base-10
\* number decodes, without failing, to zero.
C7_MalformedNumberIsZero ==
    (DecodeCalled /\ HasRoot) =>
        /\ (IsTagged(DocRoot, "int")
              /\ (~HasPayload(DocRoot) \/ ~IsDecimalInteger(Payload(DocRoot))))
               => dec.ok /\ dec.val = Number(Zero)
        /\ (IsTagged(DocRoot, "float")
              /\ (~HasPayload(DocRoot) \/ ~IsDecimalNumber(Payload(DocRoot))))
               => dec.ok /\ dec.val = Number(Zero)

\* the text is base64: groups of four characters of the alphabet, the last
\* group ending in at most two "="
IsBase64(text) ==
    /\ Len(text) % 4 = 0
    /\ \A i \in 1..Len(text) :
          \/ CharAt(text, i) \in Range(B64Chars)
          \/ /\ CharAt(text, i) = "="
             /\ i >= Len(text) - 1
             /\ i = Len(text) - 1 => CharAt(text, Len(text)) = "="

\* C8: a str node whose payload is not base64 decodes, without failing, to
\* the payload text itself; a base64 payload decodes to the text it encodes.
C8_MalformedBase64IsRaw ==
    (DecodeCalled /\ HasRoot /\ IsTagged(DocRoot, "str") /\ HasPayload(DocRoot)) =>
        /\ dec.ok
        /\ ~IsBase64(Payload(DocRoot)) => dec.val = String(Str(Payload(DocRoot)))
        /\ IsBase64(Payload(DocRoot)) => dec.val = String(Base64Decode(Payload(DocRoot)))

-----------------------------------------------------------------------------
(***************************************************************************)
(* The Express response object as the middleware uses it, and              *)
(* linoResponse.                                                           *)
(***************************************************************************)
LINO_CONTENT_TYPE == "text/lino"

\* res before anything was set: Express answers 200 unless told otherwise
NewResponse == [statusCode |-> 200, contentType |-> "", sent |-> <<>>]

\* res.headersSent
HeadersSent(res) == res.sent # <<>>

\* res.status(code); res.set("Content-Type", LINO_CONTENT_TYPE): set throws
\* once the headers are sent
SetStatusAndType(res, code) ==
    IF HeadersSent(res)
    THEN [ok |-> FALSE, res |-> [res EXCEPT !.statusCode = code]]
    ELSE [ok |-> TRUE,
          res |-> [res EXCEPT !.statusCode = code, !.contentType = LINO_CONTENT_TYPE]]

\* res.send(text)
Send(res, text) ==
    [res EXCEPT !.sent = Append(@, [status |-> res.statusCode,
                                    type   |-> res.contentType,
                                    body   |-> text])]

\* the codec after an encode call that ended in state st
CodecAfterEncode(c, st) == [c EXCEPT !.encodeMemo = st.memo, !.encodeCounter = st.counter]

\* the codec after a decode call that ended in state st
CodecAfterDecode(c, st) == [c EXCEPT !.decodeMemo = st.memo, !.decodeHeap = st.heap]

\* linoResponse(res, data, statusCode), data being a value of heap h: the
\* status and the header are set, then encode(data) is sent; a throw of
\* res.set or of encode leaves the function before res.send
LinoResponse(c, res, h, data, statusCode) ==
    LET hdr == SetStatusAndType(res, statusCode) IN
    IF ~hdr.ok
    THEN [ok |-> FALSE, err |-> "Cannot set headers after they are sent to the client",
          res |-> hdr.res, codec |-> c]
    ELSE LET e  == EncodeWith(c, h, data)
             c1 == CodecAfterEncode(c, e.st)
         IN  IF ~e.ok
             THEN [ok |-> FALSE, err |-> e.err, res |-> hdr.res, codec |-> c1]
             ELSE [ok |-> TRUE, err |-> "", res |-> Send(hdr.res, Format(e.link)),
                   codec |-> c1]

\* the heap of an object literal { key: item, ... }, the object at address 1
Literal(keys, items) == <<[isArray |-> FALSE, items |-> items, keys |-> keys]>>

\* { error: error, message: message }
ErrorAndMessage(error, message) ==
    Literal(<<Str("error"), Str("message")>>, <<String(Str(error)), String(Str(message))>>)

-----------------------------------------------------------------------------
(***************************************************************************)
(* linoBodyParser.  Every call of the middleware and every callback of a   *)
(* request stream runs to its end before the next one starts; all of them  *)
(* use the default codec.  A request keeps the body its callbacks have     *)
(* accumulated, the chunks that arrived (late: one arrived after an end    *)
(* event), the events it handled, the calls                                *)
(* of next that threw, req.body, res, and in log the calls of next and the *)
(* responses in their order.                                               *)
(***************************************************************************)
\* calls of the middleware and stream events, over all requests
MaxEvents == 6

\* the document the README posts
ReadmeDoc == "(dict obj_0 ((str bmFtZQ==) (str QWxpY2U=)))"

\* what a data event carries
Chunks == {"(array obj_0)", "(ref obj_0)", " ", ReadmeDoc}

\* req.body before the parser assigns it
Unset == [set |-> FALSE, val |-> Undefined, heap |-> <<>>]

\* req.body = v, v a value of heap h
BodyOf(v, h) == [set |-> TRUE, val |-> v, heap |-> h]

\* req and res as the middleware receives them
NewRequest(lino) ==
    [lino |-> lino, listening |-> FALSE, body |-> "", chunks |-> <<>>, late |-> FALSE,
     ends |-> 0, errors |-> 0, thrown |-> 0, reqBody |-> Unset, res |-> NewResponse,
     log |-> <<>>]

RECURSIVE EventsFrom(_, _)
EventsFrom(rs, i) ==
    IF i > Len(rs) THEN 0
    ELSE 1 + Len(rs[i].chunks) + rs[i].ends + rs[i].errors + EventsFrom(rs, i + 1)

\* the middleware calls and stream events so far
Events == EventsFrom(requests, 1)

\* !body.trim(): nothing but blanks
IsBlank(text) == \A i \in 1..Len(text) : CharAt(text, i) = " "

\* body += chunk.toString()
AppendChunk(body, chunk) == body \o chunk

\* an error response of the parser: status, header, send(encode({ error,
\* message })); a throw of res.set leaves the callback uncaught
Respond(req, c, statusCode, error, message) ==
    LET r == LinoResponse(c, req.res, ErrorAndMessage(error, message), Ref(1), statusCode) IN
    [req      |-> [req EXCEPT !.res = r.res,
                              !.log = IF r.ok THEN Append(@, ToString(statusCode)) ELSE @],
     codec    |-> r.codec,
     uncaught |-> ~r.ok]

\* a catch that answers with the status of a server failure
RejectAsServerError(req, c, message) == Respond(req, c, 500, "Invalid LINO format", message)

\* the catch of the end callback
Reject(req, c, message) == Respond(req, c, 400, "Invalid LINO format", message)

\* req.body = decode(body), d being what the call returned or threw
Decoded(c, d) ==
    [ok |-> d.ok, body |-> BodyOf(d.val, d.st.heap), codec |-> CodecAfterDecode(c, d.st),
     err |-> d.err]

\* a parser that takes a blank body for a malformed one
ReadBodyStrict(c, body) ==
    IF IsBlank(body)
    THEN [ok |-> FALSE, body |-> Unset, codec |-> c, err |-> "Empty body"]
    ELSE Decoded(c, DecodeWith(c, body))

\* body.trim() ? decode(body) : null, the value the try block assigns to
\* req.body, or what decode throws
ReadBody(c, body) ==
    IF IsBlank(body)
    THEN [ok |-> TRUE, body |-> BodyOf(Null, <<>>), codec |-> c, err |-> ""]
    ELSE Decoded(c, DecodeWith(c, body))

\* the catch of the end callback, on what decode threw (b.err) or on what
\* next threw
Caught(req, b, nextThrows) ==
    Reject(req, b.codec, IF b.ok THEN "downstream failure" ELSE b.err)

\* the try of the end callback, b being the value read from the body: req.body
\* is assigned and next is called
Tried(req, b, nextThrows) ==
    [req EXCEPT !.reqBody = b.body, !.log = Append(@, "next"),
                !.thrown = IF nextThrows THEN @ + 1 ELSE @]

\* the end callback after the body was read
Finish(req, b, nextThrows) ==
    IF ~b.ok THEN Caught(req, b, nextThrows)
    ELSE IF nextThrows THEN Caught(Tried(req, b, nextThrows), b, nextThrows)
    ELSE [req |-> Tried(req, b, nextThrows), codec |-> b.codec, uncaught |-> FALSE]

\* the end callback: req.body is assigned and next is called; whatever
\* decode or next throws is caught
OnEnd(req, c, nextThrows) ==
    Finish([req EXCEPT !.ends = @ + 1], ReadBody(c, req.body), nextThrows)

\* the error callback
OnError(req, c) ==
    Respond([req EXCEPT !.errors = @ + 1], c, 500, "Request error", "aborted")

\* bodyParser(req, res, next): a request of another content type goes on to
\* next at once, a text/lino request gets its three listeners
Arrive(lino) ==
    /\ pc = "build" /\ Events < MaxEvents
    /\ requests' = Append(requests,
                          IF lino THEN [NewRequest(TRUE) EXCEPT !.listening = TRUE]
                          ELSE [NewRequest(FALSE) EXCEPT !.log = <<"next">>])
    /\ UNCHANGED <<heap, pc, arg, codec, enc, notation, dec, frames, route, store>>

\* req.on("data")
Data(r, chunk) ==
    /\ pc = "build" /\ Events < MaxEvents /\ requests[r].listening
    /\ requests' = [requests EXCEPT ![r].body = AppendChunk(@, chunk),
                                    ![r].chunks = Append(@, chunk),
                                    ![r].late = requests[r].ends > 0]
    /\ UNCHANGED <<heap, pc, arg, codec, enc, notation, dec, frames, route, store>>

\* a callback ran: the request and the codec as it leaves them; an uncaught
\* throw ends the process
Ran(r, out) ==
    /\ requests' = [requests EXCEPT ![r] = out.req]
    /\ codec' = out.codec
    /\ pc' = IF out.uncaught THEN "crashed" ELSE pc
    /\ UNCHANGED <<heap, arg, enc, notation, dec, frames, route, store>>

\* req.on("end")
End(r, nextThrows) ==
    /\ pc = "build" /\ Events < MaxEvents /\ requests[r].listening
    /\ Ran(r, OnEnd(requests[r], codec, nextThrows))

\* req.on("error")
ErrorEvent(r) ==
    /\ pc = "build" /\ Events < MaxEvents /\ requests[r].listening
    /\ Ran(r, OnError(requests[r], codec))

ParserNext ==
    \/ \E lino \in BOOLEAN : Arrive(lino)
    \/ \E r \in 1..Len(requests), chunk \in Chunks : Data(r, chunk)
    \/ \E r \in 1..Len(requests), nextThrows \in BOOLEAN : End(r, nextThrows)
    \/ \E r \in 1..Len(requests) : ErrorEvent(r)

ParserSpec == Init /\ [][ParserNext]_vars

-----------------------------------------------------------------------------
\* a text/lino request whose stream delivered its data and then ended once,
\* without an error event; and one whose next, if called, returned
Ended(req) == req.lino /\ req.ends = 1 /\ req.errors = 0 /\ ~req.late

Completed(req) == Ended(req) /\ req.thrown = 0

\* { name: "Alice" }
NameAlice == BodyOf(Ref(1), Literal(<<Str("name")>>, <<String(Str("Alice"))>>))

\* C11: a text/lino request whose body is the document of the README is
\* accepted: req.body is the map with the one entry name -> "Alice", next is
\* called, and no error response is sent.
C11_ReadmeDocumentAccepted ==
    \A r \in 1..Len(requests) :
        (Completed(requests[r]) /\ requests[r].body = ReadmeDoc) =>
            /\ requests[r].reqBody = NameAlice
            /\ requests[r].log = <<"next">>
            /\ requests[r].res.sent = <<>>

\* the text of encode({ error: "Invalid LINO format", message }) on a codec
\* no call was made on
InvalidFormatText(message) ==
    Format(EncodeTree(ErrorAndMessage("Invalid LINO format", message), Ref(1)).link)

\* C12: when decode raises on the body of a text/lino request, the parser
\* sends status 400, Content-Type text/lino and the body
\* encode({error: "Invalid LINO format", message: <the error's message>}),
\* does not call next and leaves req.body unset.
C12_MalformedBodyRejected ==
    \A r \in 1..Len(requests) :
        LET req == requests[r] IN
        (Ended(req) /\ ~IsBlank(req.body) /\ ~DecodeText(req.body).ok) =>
            /\ req.res.sent = <<[status |-> 400, type |-> "text/lino",
                                 body |-> InvalidFormatText(DecodeText(req.body).err)]>>
            /\ req.log = <<"400">>
            /\ req.reqBody = Unset

\* the body (ref obj_0) was rejected, after an earlier request had
\* registered obj_0
C12_Witness ==
    /\ Len(requests) = 2
    /\ requests[1].body = "(array obj_0)" /\ requests[1].log = <<"next">>
    /\ requests[2].body = "(ref obj_0)" /\ requests[2].ends = 1
    /\ requests[2].log = <<"400">>
    /\ requests[2].res.sent[1].body = InvalidFormatText("Unknown reference in link")
    /\ codec.decodeMemo = EmptyMap

\* the chunks of a request, joined in arrival order
RECURSIVE Concatenated(_, _)
Concatenated(chunks, i) ==
    IF i > Len(chunks) THEN "" ELSE chunks[i] \o Concatenated(chunks, i + 1)

\* C14: with several text/lino requests in flight on the one shared codec,
\* their data and end callbacks interleaved in any order, the body a request
\* is given is the decode of the concatenation of its own chunks as a codec
\* no other request ever used gives it: req.body is that value, or is left
\* unset where that decode raises, whatever the other requests registered.
C14_RequestsDoNotInterfere ==
    \A r \in 1..Len(requests) :
        LET req == requests[r] IN
        Ended(req) =>
            LET own == ReadBody(NewCodec, Concatenated(req.chunks, 1)) IN
            /\ req.body = Concatenated(req.chunks, 1)
            /\ req.reqBody = IF own.ok THEN own.body ELSE Unset

\* two requests in flight on the one codec: the first registered obj_0,
\* the second, whose only chunk is a ref to obj_0, was rejected
C14_Witness ==
    /\ Len(requests) = 2
    /\ requests[1].chunks = <<"(array obj_0)">> /\ requests[1].reqBody.set
    /\ requests[1].reqBody.heap # <<>>
    /\ requests[2].chunks = <<"(ref obj_0)">> /\ Ended(requests[2])
    /\ requests[2].reqBody = Unset
    /\ Ended(requests[1])

\* C15: an empty or whitespace-only document is no error: decode of it
\* gives Null, and a text/lino request whose accumulated body is empty or
\* blank gets req.body = Null and next, and no error response.
C15_BlankBodyIsNull ==
    \A r \in 1..Len(requests) :
        LET req == requests[r] IN
        (Completed(req) /\ IsBlank(req.body)) =>
            /\ DecodeText(req.body).ok /\ DecodeText(req.body).val = Null
            /\ req.reqBody = BodyOf(Null, <<>>)
            /\ req.log = <<"next">>
            /\ req.res.sent = <<>>

\* a request of two blank chunks ended, and one of no chunk at all
C15_Witness ==
    /\ Len(requests) = 2
    /\ requests[1].body = "  " /\ Completed(requests[1])
    /\ requests[1].reqBody = BodyOf(Null, <<>>)
    /\ requests[2].body = "" /\ Completed(requests[2])
    /\ requests[2].log = <<"next">>

-----------------------------------------------------------------------------
(***************************************************************************)
(* LinoApp._wrapHandler.  A request is dispatched to a route; the handler  *)
(* runs, calling res.lino as it likes, and returns a value or throws; the  *)
(* wrapper then sends the value, or the error, unless a response was sent. *)
(* route holds res, the responses the handler itself sent (handlerSent),   *)
(* how the handler ended (outcome), what it returned or threw (v, a value  *)
(* of heap h) and whether an error left the wrapper uncaught.              *)
(***************************************************************************)
\* a value with the heap it lives in
In(h, v) == [h |-> h, v |-> v]

\* what a handler passes to res.lino: a map, a scalar, a function
Sendable ==
    {In(Literal(<<Str("error")>>, <<String(Str("Item not found"))>>), Ref(1)),
     In(Literal(<<Str("status")>>, <<String(Str("ok"))>>), Ref(1)),
     In(<<>>, Seven),
     In(<<>>, Function)}

\* what a handler returns: nothing, the values of the README and of the
\* example server, a list that holds itself, values encode rejects
Returnable ==
    {In(<<>>, Undefined), In(<<>>, Null), In(<<>>, Seven), In(<<>>, Sextillion),
     In(<<>>, String(Str("ok"))),
     In(Literal(<<Str("message")>>, <<String(Str("Hello"))>>), Ref(1)),
     In(Literal(<<Str("deleted")>>, <<Seven>>), Ref(1)),
     In(<<[isArray |-> TRUE, items |-> <<Ref(1), Null>>, keys |-> <<>>]>>, Ref(1)),
     In(<<>>, Bool(TRUE)),
     In(<<[isArray |-> FALSE, items |-> <<Ref(2), Number(Zero)>>,
           keys |-> <<Str("items"), Str("count")>>], EmptyArray>>, Ref(1)),
     In(<<>>, Function), In(<<>>, Symbol),
     In(Literal(<<Str("status"), Str("handler")>>, <<String(Str("ok")), Function>>), Ref(1))}

\* new Error(message)
ErrorOf(message) == Literal(<<Str("message")>>, <<String(Str(message))>>)

\* what a handler throws: an Error, a string, null
Throwable ==
    {In(ErrorOf("boom"), Ref(1)), In(ErrorOf(""), Ref(1)), In(<<>>, String(Str("boom"))),
     In(<<>>, Null)}

\* err.message: the property of an object, undefined on a string, a
\* TypeError on null
HasMessage(e) == e.v.k \notin {"null", "undefined"}

MessageOf(e) ==
    IF e.v.k = "object" /\ \E i \in 1..Len(e.h[e.v.a].keys) : e.h[e.v.a].keys[i] = Str("message")
    THEN e.h[e.v.a].items[CHOOSE i \in 1..Len(e.h[e.v.a].keys) :
                              e.h[e.v.a].keys[i] = Str("message")]
    ELSE Undefined

\* { error: err.message }
ErrorOnly(message) == Literal(<<Str("error")>>, <<message>>)

\* the catch of the wrapper: if (!res.headersSent) res.lino({ error:
\* err.message }, 500)
OnThrow(c, res, e) ==
    IF HeadersSent(res) THEN [ok |-> TRUE, err |-> "", res |-> res, codec |-> c]
    ELSE IF ~HasMessage(e)
    THEN [ok |-> FALSE, err |-> "Cannot read properties of null", res |-> res, codec |-> c]
    ELSE LinoResponse(c, res, ErrorOnly(MessageOf(e)), Ref(1), 500)

\* a wrapper that sends nothing for a returned value
OnReturnSilent(c, res, h, v) == [ok |-> TRUE, err |-> "", res |-> res, codec |-> c]

\* the try of the wrapper after the handler returned v: if (result !==
\* undefined && !res.headersSent) res.lino(result); what res.lino throws
\* goes to the catch
OnReturn(c, res, h, v) ==
    IF v = Undefined \/ HeadersSent(res)
    THEN [ok |-> TRUE, err |-> "", res |-> res, codec |-> c]
    ELSE LET r == LinoResponse(c, res, h, v, 200) IN
         IF r.ok THEN r ELSE OnThrow(r.codec, r.res, In(ErrorOf(r.err), Ref(1)))

\* Express calls the wrapped handler with req and res
Dispatch ==
    /\ pc = "build" /\ route.state \in {"none", "done"}
    /\ route' = [NoRoute EXCEPT !.state = "running"]
    /\ UNCHANGED <<heap, pc, arg, codec, enc, notation, dec, frames, requests, store>>

\* the wrapper has run to its end on the outcome of the handler
Settled(outcome, x, w) ==
    /\ route' = [route EXCEPT !.state = "done", !.res = w.res, !.outcome = outcome,
                              !.h = x.h, !.v = x.v, !.uncaught = ~w.ok]
    /\ codec' = w.codec
    /\ UNCHANGED <<heap, pc, arg, enc, notation, dec, frames, requests, store>>

\* the handler calls res.lino(data, statusCode); what the call throws, the
\* handler throws
HandlerSends(x, statusCode) ==
    /\ route.state = "running"
    /\ LET r == LinoResponse(codec, route.res, x.h, x.v, statusCode) IN
       IF r.ok
       THEN /\ route' = [route EXCEPT !.res = r.res, !.handlerSent = r.res.sent]
            /\ codec' = r.codec
            /\ UNCHANGED <<heap, pc, arg, enc, notation, dec, frames, requests, store>>
       ELSE Settled("threw", In(ErrorOf(r.err), Ref(1)),
                    OnThrow(r.codec, r.res, In(ErrorOf(r.err), Ref(1))))

\* the handler returns x, or the promise it returned resolves to x
HandlerReturns(x) ==
    /\ route.state = "running"
    /\ Settled("returned", x, OnReturn(codec, route.res, x.h, x.v))

\* the handler throws e, or the promise it returned rejects with e
HandlerThrows(e) ==
    /\ route.state = "running"
    /\ Settled("threw", e, OnThrow(codec, route.res, e))

RouteNext ==
    \/ Dispatch
    \/ \E x \in Sendable, statusCode \in {200, 404} : HandlerSends(x, statusCode)
    \/ \E x \in Returnable : HandlerReturns(x)
    \/ \E e \in Throwable : HandlerThrows(e)

RouteSpec == Init /\ [][RouteNext]_vars

-----------------------------------------------------------------------------
\* the one response with this status and encode(v) as a codec no call was
\* made on writes it
LinoOf(statusCode, h, v) ==
    <<[status |-> statusCode, type |-> "text/lino", body |-> Format(EncodeTree(h, v).link)]>>

\* C13: when a wrapped handler returns a value other than undefined that
\* encode accepts, and no response has been sent, the client receives
\* exactly one response: status 200, Content-Type text/lino, body encode(v).
C13_ReturnedValueSent ==
    (route.state = "done" /\ route.outcome = "returned" /\ route.v # Undefined
       /\ route.handlerSent = <<>> /\ EncodeTree(route.h, route.v).ok)
        => route.res.sent = LinoOf(200, route.h, route.v)

\* the handler returned the list that holds itself
C13_Witness ==
    /\ route.state = "done" /\ route.outcome = "returned"
    /\ route.v = Ref(1) /\ route.h[1].isArray
    /\ route.res.sent = <<[status |-> 200, type |-> "text/lino",
                           body |-> "(array obj_0 (ref obj_0) (null))"]>>

-----------------------------------------------------------------------------
(***************************************************************************)
(* ObjectCodec._decodeLink, call by call.  frames is the stack of the      *)
(* activations of _decodeLink that are inside the loop of a container      *)
(* node: the node (link), the index i of the child the loop is at, the     *)
(* address a of result, and for a map the key of the pair at i once it is  *)
(* decoded.  codec.decodeMemo and codec.decodeHeap are the table and the   *)
(* containers as the call has them at that moment.                         *)
(***************************************************************************)
\* items of a list obj_0: references to it and to a list or a map inside
\* it, nodes that register obj_1, or obj_0 once more, and a number
StepItems ==
    {"(ref obj_0)", "(ref obj_1)", "(int 7)", "(array obj_1 (ref obj_0))",
     "(array obj_0 (ref obj_0))", "(object obj_1 ((str YQ==) (ref obj_1)))"}

\* the documents decoded call by call
StepDocs ==
    {"", "(null)", "(array)", "(array obj_0", "(ref obj_0)",
     "(array (int 1) (int 2))",
     "(array obj_0 (array obj_1 (ref obj_0) (ref obj_1)) (ref obj_1))",
     "(array obj_0 (array obj_0 (ref obj_0)) (ref obj_0))",
     "(object obj_0 ((str c2VsZg==) (ref obj_0)))",
     "(object obj_0 ((str YQ==) (array obj_1 (ref obj_0) (ref obj_2))))",
     "(array obj_0 (object obj_1 ((str YQ==) (ref obj_0)) ((str Yg==))) (int 7))",
     "(object obj_0 ((array obj_1 (ref obj_0)) (object obj_0 ((ref obj_1) (ref obj_0)))))",
     "(array obj_0 (dict obj_1))"}
    \cup {"(array obj_0 " \o d \o " " \o e \o ")" : d \in StepItems, e \in StepItems}

\* _decodeLink(link) goes into the loop of the array or object branch
EntersLoop(link) == IsContainerNode(link) /\ Len(link.values) >= 2

\* the activation as the loop starts: let i = 2
LoopFrame(link, a) ==
    [link |-> link, i |-> 3, a |-> a, isArray |-> IsTagged(link, "array"),
     hasKey |-> FALSE, key |-> Undefined]

\* this._decodeMemo and the containers it refers to, as they are now
Live == [memo |-> codec.decodeMemo, heap |-> codec.decodeHeap]

\* the node the innermost activation f decodes next: the item, or the key
\* and then the value of the pair
ChildOf(f) ==
    IF f.isArray THEN f.link.values[f.i]
    ELSE IF f.hasKey THEN f.link.values[f.i].values[2]
    ELSE f.link.values[f.i].values[1]

\* the activation f gets the value v of the child it called for:
\* result.push(decodedItem), const decodedKey, result[decodedKey] = decodedValue
Receive(f, v, st) ==
    IF f.isArray
    THEN [frame |-> [f EXCEPT !.i = @ + 1], st |-> [st EXCEPT !.heap[f.a] = Push(@, v)]]
    ELSE IF ~f.hasKey
    THEN [frame |-> [f EXCEPT !.hasKey = TRUE, !.key = v], st |-> st]
    ELSE [frame |-> [f EXCEPT !.i = @ + 1, !.hasKey = FALSE, !.key = Undefined],
          st    |-> [st EXCEPT !.heap[f.a] = SetProp(@, ToStringJS(st.heap, f.key, {}), v)]]

\* a call of _decodeLink ends with the result r, its callers being fs: a
\* throw unwinds them all, a value goes to the innermost, the value of the
\* root is what decode returns
Returns(fs, r) ==
    IF ~r.ok \/ fs = <<>>
    THEN /\ frames' = <<>>
         /\ codec' = CodecAfterDecode(codec, r.st)
         /\ dec' = [ok |-> r.ok, val |-> r.val, heap |-> r.st.heap, err |-> r.err]
         /\ pc' = "decoded"
    ELSE LET x == Receive(fs[Len(fs)], r.val, r.st) IN
         /\ frames' = [fs EXCEPT ![Len(fs)] = x.frame]
         /\ codec' = CodecAfterDecode(codec, x.st)
         /\ dec' = dec
         /\ pc' = "stepping"

\* _decodeLink(link) is called, its callers being fs: a container node with
\* a ref id slot gets its container, registers it and starts its loop; any
\* other node is decoded at once
Calls(fs, link, st) ==
    IF EntersLoop(link)
    THEN LET a   == Len(st.heap) + 1
             st1 == Alloc(st, IF IsTagged(link, "array") THEN EmptyArray ELSE EmptyObject)
             st2 == Register(link, st1, a)
         IN  /\ frames' = Append(fs, LoopFrame(link, a))
             /\ codec' = CodecAfterDecode(codec, st2)
             /\ dec' = dec
             /\ pc' = "stepping"
    ELSE Returns(fs, DecodeLink(link, st))

\* decode(notation): reset, parse, and the call on the first link
StepDecode(text) ==
    /\ pc = "build" /\ heap = <<>> /\ requests = <<>> /\ route = NoRoute
    /\ notation' = text
    /\ LET st0   == ResetDecode(codec)
           links == Parse(text)
       IN  IF ~links.ok THEN Returns(<<>>, Error("Parse error", st0))
           ELSE IF links.links = <<>> THEN Returns(<<>>, Value(Null, st0))
           ELSE Calls(<<>>, links.links[1], st0)
    /\ UNCHANGED <<heap, arg, enc, requests, route, store>>

\* the innermost activation, in a loop that has a child left
Top == frames[Len(frames)]

InLoop == pc = "stepping" /\ frames # <<>> /\ Top.i <= Len(Top.link.values)

\* the pair link has fewer than two values: the loop goes on
IsSkipped(f) == ~f.isArray /\ Len(f.link.values[f.i].values) < 2

\* the loop calls _decodeLink on a container node
EnterChild ==
    /\ InLoop /\ ~IsSkipped(Top) /\ EntersLoop(ChildOf(Top))
    /\ Calls(frames, ChildOf(Top), Live)
    /\ UNCHANGED <<heap, arg, enc, notation, requests, route, store>>

\* the loop calls _decodeLink on a node that is decoded at once
DecodeChild ==
    /\ InLoop /\ ~IsSkipped(Top) /\ ~EntersLoop(ChildOf(Top))
    /\ Calls(frames, ChildOf(Top), Live)
    /\ UNCHANGED <<heap, arg, enc, notation, requests, route, store>>

\* the loop of a map passes a pair link it does not read
SkipPair ==
    /\ InLoop /\ IsSkipped(Top)
    /\ frames' = [frames EXCEPT ![Len(frames)].i = @ + 1]
    /\ UNCHANGED <<heap, pc, arg, codec, enc, notation, dec, requests, route, store>>

\* return result: the loop is over
ReturnContainer ==
    /\ pc = "stepping" /\ frames # <<>> /\ Top.i > Len(Top.link.values)
    /\ Returns(SubSeq(frames, 1, Len(frames) - 1), Value(Ref(Top.a), Live))
    /\ UNCHANGED <<heap, arg, enc, notation, requests, route, store>>

StepNext ==
    \/ \E text \in StepDocs : StepDecode(text)
    \/ EnterChild
    \/ DecodeChild
    \/ SkipPair
    \/ ReturnContainer

StepSpec == Init /\ [][StepNext]_vars

-----------------------------------------------------------------------------
\* the activation's node carries a ref id, and the id
Carries(f) == HasId(f.link.values[2])

RefIdOf(f) == IdOf(f.link.values[2])

\* the ref ids of the container nodes of the document, in document order
LoopIds(nodes) ==
    LET T(l) == EntersLoop(l) /\ HasId(l.values[2]) IN SelectSeq(nodes, T)

\* no two container nodes of the document carry the same ref id
DistinctIds ==
    HasRoot /\ LET ns == LoopIds(ValueNodes(DocRoot)) IN
               \A i, j \in 1..Len(ns) :
                   IdOf(ns[i].values[2]) = IdOf(ns[j].values[2]) => i = j

\* C16 as stated: while the children of a container node are decoded, every
\* enclosing container whose node carries a ref id is what a ref node with
\* that id resolves to.
C16_Original ==
    pc = "stepping" =>
        \A k \in 1..Len(frames) :
            Carries(frames[k]) =>
                /\ RefIdOf(frames[k]) \in DOMAIN codec.decodeMemo
                /\ codec.decodeMemo[RefIdOf(frames[k])] = frames[k].a

\* every enclosing container's ref id is in the table, under that container
\* or one created after it; under that container where the ids are distinct
RegisteredWhileDecoding ==
    pc = "stepping" =>
        \A k \in 1..Len(frames) :
            Carries(frames[k]) =>
                /\ RefIdOf(frames[k]) \in DOMAIN codec.decodeMemo
                /\ codec.decodeMemo[RefIdOf(frames[k])] >= frames[k].a
                /\ DistinctIds => codec.decodeMemo[RefIdOf(frames[k])] = frames[k].a

\* no step of the call takes a ref id out of the table
StaysRegistered ==
    pc = "stepping" => DOMAIN codec.decodeMemo \subseteq DOMAIN codec'.decodeMemo

\* C16: during decode the container of a container node is in the table
\* under the node's ref id before the first of its children is decoded, and
\* the id stays in the table for the rest of the call; while a child is
\* decoded the id of every enclosing container resolves to that container,
\* unless a container node decoded after it carries the same id, which then
\* resolves to the later one.
C16_RegisteredBeforeChildren == []RegisteredWhileDecoding /\ [][StaysRegistered]_vars

\* inside the list obj_1 inside the list obj_0, before its first child:
\* both are in the table
C16_Witness ==
    /\ pc = "stepping"
    /\ notation = "(array obj_0 (array obj_1 (ref obj_0) (ref obj_1)) (ref obj_1))"
    /\ Len(frames) = 2 /\ frames[2].i = 3
    /\ codec.decodeHeap = <<EmptyArray, EmptyArray>>
    /\ codec.decodeMemo = MapSet(MapSet(EmptyMap, "obj_0", 1), "obj_1", 2)

-----------------------------------------------------------------------------
(***************************************************************************)
(* Any sequence of encode and decode calls on the one default codec: the   *)
(* exported encode and decode pass every call to _defaultCodec, whose      *)
(* tables and counter are what the call before left.                       *)
(***************************************************************************)
\* the documents passed to decode: nodes that register obj_0 or obj_1,
\* refs to them, and documents decode gives up on after registering
CallDocs ==
    {"", "(int 7)", "(array obj_0)", "(ref obj_0)", "(ref obj_1)",
     "(array obj_0 (ref obj_0))", "(array obj_0 (ref obj_9))",
     "(object obj_1 ((str YQ==) (ref obj_1)))",
     "(array obj_0 (array obj_1) (dict obj_2))"}

\* what encode returns or throws, as the caller sees it
EncodeResult(r) ==
    IF r.ok THEN [ok |-> TRUE, text |-> Format(r.link), link |-> r.link, err |-> ""]
    ELSE [NoEncode EXCEPT !.err = r.err]

\* what decode returns or throws, as the caller sees it
DecodeResult(r) == [ok |-> r.ok, val |-> r.val, heap |-> r.st.heap, err |-> r.err]

\* encode(obj) = _defaultCodec.encode(obj), obj a value of the heap x.h
CallEncode(x) ==
    /\ LET r == EncodeWith(codec, x.h, x.v) IN
       /\ codec' = CodecAfterEncode(codec, r.st)
       /\ enc' = EncodeResult(r)
    /\ heap' = x.h
    /\ arg' = x.v
    /\ pc' = "encoded"
    /\ UNCHANGED <<notation, dec, server>>

\* decode(notation) = _defaultCodec.decode(notation)
CallDecode(text) ==
    /\ LET r == DecodeWith(codec, text) IN
       /\ codec' = CodecAfterDecode(codec, r.st)
       /\ dec' = DecodeResult(r)
    /\ notation' = text
    /\ pc' = "decoded"
    /\ UNCHANGED <<heap, arg, enc, server>>

CallsNext ==
    \/ \E x \in Returnable : CallEncode(x)
    \/ \E text \in CallDocs : CallDecode(text)

CallsSpec == Init /\ [][CallsNext]_vars

\* C17: codec state is per call: whatever encode and decode calls the codec
\* served before, failed ones among them, encode(v) gives the text (or the
\* error) a codec no call was made on gives for v, ref ids starting at
\* obj_0, and decode(t) gives what such a codec gives for t: a ref node
\* resolves only against the containers t itself registered, so a ref to
\* an id only an earlier call registered fails as a dangling reference.
C17_StatePerCall ==
    /\ pc = "encoded" => enc = EncodeResult(EncodeTree(heap, arg))
    /\ pc = "decoded" =>
           /\ dec = DecodeResult(DecodeText(notation))
           /\ notation \in {"(ref obj_0)", "(ref obj_1)"} =>
                  ~dec.ok /\ dec.err = "Unknown reference in link"

\* a list that holds itself was encoded, its id obj_0 again, on a codec
\* whose last decode call had registered obj_0 and obj_1 and then failed
C17_Witness ==
    /\ pc = "encoded"
    /\ enc.ok /\ enc.text = "(array obj_0 (ref obj_0) (null))"
    /\ codec.encodeCounter = 1
    /\ notation = "(array obj_0 (array obj_1) (dict obj_2))" /\ ~dec.ok
    /\ DOMAIN codec.decodeMemo = {"obj_0", "obj_1"}

-----------------------------------------------------------------------------
\* the handler failed: it threw, or returned a value encode rejects
Failed ==
    \/ route.outcome = "threw"
    \/ route.outcome = "returned" /\ route.v # Undefined /\ ~EncodeTree(route.h, route.v).ok

\* the message of the failure
FailureMessage ==
    IF route.outcome = "threw" THEN MessageOf(In(route.h, route.v))
    ELSE String(Str(EncodeTree(route.h, route.v).err))

\* C18: when a wrapped handler throws or rejects, or returns a value that
\* cannot be encoded, and no response was sent, the client receives one
\* response: 500, text/lino, encode({error: <the error's message>}); when
\* the handler had sent a response, the wrapper sends nothing further.
C18_FailureAnswered ==
    route.state = "done" =>
        /\ (Failed /\ route.handlerSent = <<>>) =>
               /\ Len(route.res.sent) = 1
               /\ route.res.sent[1].status = 500
               /\ route.res.sent[1].type = "text/lino"
               /\ HasMessage(In(route.h, route.v)) =>
                      route.res.sent = LinoOf(500, ErrorOnly(FailureMessage), Ref(1))
        /\ route.handlerSent # <<>> => route.res.sent = route.handlerSent

\* C19: for every request passed to the body parser, under any order and
\* number of data, end and error events and any behaviour of next, at most
\* one outcome is produced, and exactly one once the stream has ended: next
\* called once, or one error response sent; never next twice, never two
\* responses, never an error response after next.
C19_ExactlyOneOutcome ==
    \A r \in 1..Len(requests) :
        /\ Len(requests[r].log) <= 1
        /\ Len(requests[r].res.sent) <= 1
        /\ requests[r].ends > 0 => Len(requests[r].log) = 1

\* C20: every request dispatched to a wrapped handler that returned or threw
\* has a response: once the wrapper has run to its end, a response was sent.
C20_EveryRequestAnswered ==
    route.state = "done" => route.res.sent # <<>>

-----------------------------------------------------------------------------
\* the i-th node is a ref node, and a container node before it in document
\* order carries its id as second child
RefAfterContainer(nodes, i) ==
    \E j \in 1..(i - 1) :
        /\ IsContainerNode(nodes[j]) /\ Len(nodes[j].values) >= 2
        /\ Len(nodes[i].values) = 2
        /\ HasId(nodes[i].values[2])
        /\ nodes[j].values[2] = nodes[i].values[2]

\* C21: for every value encode accepts, every (ref id) node of the text
\* encode returns stands, in document order, after the opening (tag and
\* ref id) of the container node that carries the id; and decode of that
\* text returns: it never fails with a dangling reference or an unknown tag.
C21_RefsFollowTheirContainer ==
    /\ Encoded =>
           /\ Parse(enc.text).ok /\ Len(Parse(enc.text).links) = 1
           /\ LET nodes == AllNodes(Parse(enc.text).links[1]) IN
              \A i \in 1..Len(nodes) : IsRefNode(nodes[i]) => RefAfterContainer(nodes, i)
    /\ RoundTrip =>
           /\ dec.ok
           /\ dec.err \notin {"Unknown reference in link"}
                          \cup {"Unknown type marker: " \o t : t \in DocTags \cup KnownTags}

\* a list that holds a map twice, the map holding the list and itself, went
\* through encode and decode: three ref nodes, each after its container
C21_Witness ==
    /\ RoundTrip /\ dec.ok /\ arg = Ref(1) /\ Len(heap) = 2
    /\ heap[1].isArray /\ ~heap[2].isArray
    /\ heap[1].items = <<Ref(2), Ref(2)>> /\ heap[2].items = <<Ref(1)>>
    /\ notation = "(array obj_0 (object obj_1 ((str bmFtZQ==) (ref obj_0))) (ref obj_1))"

-----------------------------------------------------------------------------
(***************************************************************************)
(* The example item server.  store.items is the Map items (key to item, an *)
(* item being the object c whose values live in the heap h of the body it  *)
(* was made from), store.nextId the counter, store.handed the keys POST    *)
(* has handed out, in order, and store.last what the last handler did:     *)
(* the key it was asked for or made, the status and the item it returned   *)
(* to the wrapper, or the response it sent itself.  The order of the Map   *)
(* and GET /items are left out.                                            *)
(***************************************************************************)
\* the POST requests the model makes
MaxItems == 2

\* req.body as the handlers find it: never assigned, and maps with and
\* without a key id
ItemBodies ==
    {In(<<>>, Undefined),
     In(Literal(<<Str("name")>>, <<String(Str("Alice"))>>), Ref(1)),
     In(Literal(<<Str("id")>>, <<Number(Num(FALSE, "99", 2))>>), Ref(1)),
     In(Literal(<<Str("id"), Str("createdAt")>>, <<String(Str("1")), Null>>), Ref(1))}

\* req.params.id
ItemPaths == {"1", "02", "x"}

\* new Date().toISOString(), one moment standing for all
Now == String(Str("2024-01-01T00:00:00.000Z"))

\* the number n, as nextId holds it
IdNumber(n) == Normalise(FALSE, ToString(n), "", 0)

RECURSIVE SpreadFrom(_, _, _, _)
\* the own properties of a map copied into c in order, from the i-th on
SpreadFrom(c, keys, items, i) ==
    IF i > Len(items) THEN c
    ELSE SpreadFrom(SetProp(c, keys[i], items[i]), keys, items, i + 1)

\* { ...c, ...x }: the properties of a map x, nothing for null, undefined
\* and the other scalars without own properties
Spread(c, x) ==
    IF x.v.k = "object" /\ ~x.h[x.v.a].isArray
    THEN SpreadFrom(c, x.h[x.v.a].keys, x.h[x.v.a].items, 1)
    ELSE c

\* { id, ...req.body, createdAt / updatedAt: new Date().toISOString() }
MakeItem(id, x, stamp) ==
    [c |-> SetProp(Spread(Literal(<<Str("id")>>, <<Number(id)>>)[1], x), Str(stamp), Now),
     h |-> x.h]

\* map.delete(key)
MapDelete(m, key) == [kk \in DOMAIN m \ {key} |-> m[kk]]

\* what a handler did: it returned item to the wrapper, or sent a response
Last(op, key, status, item, sent) ==
    [op |-> op, key |-> key, status |-> status, item |-> item, sent |-> sent]

\* res.lino({ error: 'Item not found' }, 404); return
NotFound(op, key) ==
    LET r == LinoResponse(codec, NewResponse,
                          Literal(<<Str("error")>>, <<String(Str("Item not found"))>>),
                          Ref(1), 404)
    IN  /\ store' = [store EXCEPT !.last = Last(op, key, 404, EmptyObject, r.res.sent)]
        /\ codec' = r.codec

\* app.post('/items')
PostItem(x) ==
    /\ store.nextId <= MaxItems
    /\ LET id   == IdNumber(store.nextId)
           item == MakeItem(id, x, "createdAt")
       IN  store' = [store EXCEPT !.nextId = @ + 1,
                                  !.items = MapSet(@, id, item),
                                  !.handed = Append(@, id),
                                  !.last = Last("POST", id, 200, item.c, <<>>)]
    /\ UNCHANGED <<heap, pc, arg, codec, enc, notation, dec, frames, requests, route>>

\* app.put('/items/:id')
PutItem(path, x) ==
    /\ LET id == ParseInt(path) IN
       IF id \notin DOMAIN store.items THEN NotFound("PUT", id)
       ELSE /\ store' = [store EXCEPT
                            !.items = MapSet(@, id, MakeItem(id, x, "updatedAt")),
                            !.last = Last("PUT", id, 200, MakeItem(id, x, "updatedAt").c, <<>>)]
            /\ codec' = codec
    /\ UNCHANGED <<heap, pc, arg, enc, notation, dec, frames, requests, route>>

\* app.delete('/items/:id')
DeleteItem(path) ==
    /\ LET id == ParseInt(path) IN
       IF id \notin DOMAIN store.items THEN NotFound("DELETE", id)
       ELSE /\ store' = [store EXCEPT !.items = MapDelete(@, id),
                                      !.last = Last("DELETE", id, 200, EmptyObject, <<>>)]
            /\ codec' = codec
    /\ UNCHANGED <<heap, pc, arg, enc, notation, dec, frames, requests, route>>

\* app.get('/items/:id')
GetItem(path) ==
    /\ LET id == ParseInt(path) IN
       IF id \notin DOMAIN store.items THEN NotFound("GET", id)
       ELSE /\ store' = [store EXCEPT !.last = Last("GET", id, 200, store.items[id].c, <<>>)]
            /\ codec' = codec
    /\ UNCHANGED <<heap, pc, arg, enc, notation, dec, frames, requests, route>>

ItemNext ==
    \/ \E x \in ItemBodies : PostItem(x)
    \/ \E path \in ItemPaths, x \in ItemBodies : PutItem(path, x)
    \/ \E path \in ItemPaths : DeleteItem(path)
    \/ \E path \in ItemPaths : GetItem(path)

ItemSpec == Init /\ [][ItemNext]_vars

-----------------------------------------------------------------------------
\* item.id, the first own property of every item
IdField(c) == c.items[1]

\* C22: after any sequence of POST, PUT and DELETE requests with any bodies,
\* every item of the store has an id field equal to the key it is stored
\* under, so a GET /items/:id that finds an item returns one whose id is the
\* requested id; the keys POST hands out are 1, 2, 3, ... in that order, none
\* of them a second time, whatever was deleted.
C22_ItemIdIsItsKey ==
    /\ \A key \in DOMAIN store.items :
           /\ store.items[key].c.keys[1] = Str("id")
           /\ IdField(store.items[key].c) = Number(key)
    /\ (store.last.op = "GET" /\ store.last.status = 200) =>
           IdField(store.last.item) = Number(store.last.key)
    /\ \A i \in 1..Len(store.handed) : store.handed[i] = IdNumber(i)

=============================================================================
